---- MODULE Spec2Model ----
(***************************************************************************)
(* Coruscant Bank OTC service: the HTTP surface (routes/api.ts with the    *)
(* validators middleware) in its two configurations, self-publishing with  *)
(* the in-process FakeLiquidationService that tracks loans, and forwarding *)
(* to a remote liquidation service; and the layered variant (main.ts,      *)
(* LoanController, use cases, in-memory repositories, Loan entity).        *)
(*                                                                         *)
(* Numbers: JavaScript numbers are modelled as records [nan, v]; v is an   *)
(* integer count of thousandths, so "5" parses to v = 5000.                *)
(***************************************************************************)
EXTENDS Integers, Sequences, FiniteSets, TLC

(***************************************************************************)
(* Bounds of the model                                                     *)
(***************************************************************************)
MaxRequests == 4
MaxRepeatRequests == 2
MaxDomainRequests == 3
MaxLoans == 1
MaxNodes == 2
PriceLo == 49
PriceHi == 51
MaxCollateral == 14
maxInMemoryEvents == 2
MaxMessages == 2
MaxStored == 4
maxClients == 1
MaxActors == 3
deathAfter == 10

RequestIdPool == <<"req-1", "req-2", "req-3", "req-4", "req-5", "req-6", "req-7", "req-8">>
LoanIdPool == <<"loan-1", "loan-2", "loan-3">>

EventIdPool == <<"event-1", "event-2", "event-3", "event-4">>
EventIds == { EventIdPool[i] : i \in 1..MaxDomainRequests }
AllRequestIds == { RequestIdPool[i] : i \in 1..Len(RequestIdPool) }
RequestIds == { RequestIdPool[i] : i \in 1..MaxRequests }
LoanIds == { LoanIdPool[i] : i \in 1..MaxLoans }
BorrowerIds == { "borrower-1", "borrower-2" }
\* Processes of the service; the fake liquidation service lives in the first.
Nodes == 1..MaxNodes
Primary == 1
\* Messages the queue can hold and actors the simulator can create.
MessageIds == 1..MaxMessages
ActorIds == 1..MaxActors

\* Request bodies carry strings; a string is a sequence of characters.
Str500 == <<"5", "0", "0">>
StrNeg995 == <<"-", "9", "9", "5">>
Str5 == <<"5">>
Str250 == <<"2", "5", "0">>
Str0 == <<"0">>
Str3 == <<"3">>
Str4 == <<"4">>
StrAbc == <<"a", "b", "c">>
LoanAmountInputs == { Str500, Str250 }
TopUpAmountInputs == { StrNeg995, Str5 }

(***************************************************************************)
(* JavaScript numbers                                                      *)
(***************************************************************************)
NaN == [nan |-> TRUE, v |-> 0]
F(x) == [nan |-> FALSE, v |-> x]

IsDigit(c) == c \in {"0", "1", "2", "3", "4", "5", "6", "7", "8", "9"}
DigitValue(c) ==
  CASE c = "0" -> 0 [] c = "1" -> 1 [] c = "2" -> 2 [] c = "3" -> 3 [] c = "4" -> 4
    [] c = "5" -> 5 [] c = "6" -> 6 [] c = "7" -> 7 [] c = "8" -> 8 [] c = "9" -> 9

\* Length of the longest prefix of s, from position i on, made of digits.
RECURSIVE DigitRun(_, _)
DigitRun(s, i) == IF i <= Len(s) /\ IsDigit(s[i]) THEN 1 + DigitRun(s, i + 1) ELSE 0

\* Value of the n digits of s starting at position i.
RECURSIVE DigitsValue(_, _, _)
DigitsValue(s, i, n) ==
  IF n = 0 THEN 0 ELSE DigitsValue(s, i, n - 1) * 10 + DigitValue(s[i + n - 1])

\* The first three fractional digits of s from position i (n of them present),
\* as thousandths.
FractionValue(s, i, n) ==
  LET d(k) == IF k <= n THEN DigitValue(s[i + k - 1]) ELSE 0
  IN d(1) * 100 + d(2) * 10 + d(3)

\* parseFloat: optional sign, digits, optional fraction; the longest numeric
\* prefix is converted and anything after it is ignored; NaN without digits.
parseFloat(s) ==
  LET signed == Len(s) >= 1 /\ s[1] \in {"-", "+"}
      sign == IF Len(s) >= 1 /\ s[1] = "-" THEN 0 - 1 ELSE 1
      i0 == IF signed THEN 2 ELSE 1
      nInt == DigitRun(s, i0)
      iDot == i0 + nInt
      hasDot == iDot <= Len(s) /\ s[iDot] = "."
      nFrac == IF hasDot THEN DigitRun(s, iDot + 1) ELSE 0
  IN IF nInt = 0 /\ nFrac = 0
       THEN NaN
       ELSE F(sign * (DigitsValue(s, i0, nInt) * 1000 + FractionValue(s, iDot + 1, nFrac)))

FAdd(a, b) == IF a.nan \/ b.nan THEN NaN ELSE F(a.v + b.v)
\* Multiplication by a plain integer factor.
FScale(a, k) == IF a.nan THEN NaN ELSE F(a.v * k)

\* A quotient num/den of two numbers, kept exact.
RatioNaN == [nan |-> TRUE, num |-> 0, den |-> 1]
Ratio(n, d) == [nan |-> FALSE, num |-> n, den |-> d]
\* r <= p/q and r >= p/q for positive integers p, q (comparisons with NaN are false).
RatioLeq(r, p, q) ==
  /\ ~r.nan
  /\ IF r.den > 0 THEN r.num * q <= p * r.den ELSE r.num * q >= p * r.den
RatioGeq(r, p, q) ==
  /\ ~r.nan
  /\ IF r.den > 0 THEN r.num * q >= p * r.den ELSE r.num * q <= p * r.den

(***************************************************************************)
(* State                                                                   *)
(***************************************************************************)
VARIABLES
  processedRequests,  \* index.ts: the Set of requestIds, one per process
  loans,              \* FakeLiquidationService.loans
  currentPrice,       \* FakeLiquidationService.currentPrice
  running,            \* FakeLiquidationService: the two intervals are installed
  snsInFlight,        \* publishes sent to SNS and not yet answered
  published,          \* events SNS has acknowledged, in order of acknowledgement
  response,           \* status code of the last HTTP response (0: none yet)
  inFlight,           \* routes/api.ts: handlers suspended at an await (publish, forward)
  handlerRuns,        \* per process and requestId: how often the route handler was entered
  forwarded,          \* requests the remote liquidation service has received
  repository,         \* InMemoryLoanRepository.loans
  borrowers,          \* InMemoryBorrowerRepository.borrowers
  executions,         \* use-case executions suspended at an await
  microtasks,         \* continuations that are ready to run, in order
  credited,           \* per loan: collateral at creation plus the top-ups saved since
  domainEvents,       \* DomainEvent objects handed to the event publisher or the liquidation service
  entity,             \* a Loan object (domain/entities/loan.ts)
  returned,           \* what the last call on the Loan object returned ("throws": an Error)
  eventHistory,       \* EventHistoryStore.events, one store per process
  eventsAdded,        \* per process: how many events were given to EventHistoryStore.addEvent
  queue,              \* the SQS queue: per message its body and where it is
  loanEventStore,     \* LoanEventStore.events
  isRunning,          \* ClientSimulator.isRunning
  clients,            \* ClientSimulator.clients: the actors of the Map
  actors,             \* per ClientActor: its interval is installed, actionsPerformed
  listening,          \* ClientSimulator.events has the 'action' and 'die' listeners
  statistics,         \* ClientSimulator.statistics: births and deaths
  retry,              \* one call of withRetry: its options, fn, attempt, lastError and where it is
  polling             \* index.ts: the subscription at boot, the polls in progress, the timers set

forwardVars == <<inFlight, handlerRuns, forwarded>>
domainVars == <<repository, borrowers, executions, microtasks, credited, domainEvents>>
entityVars == <<entity, returned>>
historyVars == <<eventHistory, eventsAdded>>
consumerVars == <<queue, loanEventStore>>
simulatorVars == <<isRunning, clients, actors, listening, statistics>>
retryVars == <<retry>>
pollingVars == <<polling>>
peripheralVars == <<consumerVars, simulatorVars, retryVars, pollingVars>>
coreVars == <<processedRequests, loans, currentPrice, running, snsInFlight, published, response,
              forwardVars, domainVars, entityVars, retryVars, pollingVars>>
simulationRest == <<processedRequests, loans, currentPrice, running, snsInFlight, published,
                    forwardVars, domainVars, entityVars, retryVars, pollingVars>>
vars == <<processedRequests, loans, currentPrice, running, snsInFlight, published, response,
          forwardVars, domainVars, entityVars, historyVars, peripheralVars>>

NoLoan == [status |-> "none"]

(***************************************************************************)
(* FakeLiquidationService                                                  *)
(***************************************************************************)
InitialPrice == 50
MinPrice == 10

EventTypes == { "LOAN_APPLICATION", "LOAN_ACTIVATION", "LOAN_LIQUIDATION" }
Events == [eventType : EventTypes, loanId : LoanIds]
Event(t, l) == [eventType |-> t, loanId |-> l]

\* snsPublisher.publish is started and not awaited by the caller: the message
\* is in flight until SNS answers.
Send(bag, evs) == [e \in Events |-> bag[e] + (IF e \in evs THEN 1 ELSE 0)]

calculateLTV(collateral, loanAmount, price) ==
  IF ~loanAmount.nan /\ loanAmount.v = 0 THEN Ratio(0, 1)
  ELSE IF collateral.nan \/ loanAmount.nan THEN RatioNaN
  ELSE Ratio(collateral.v * price, loanAmount.v)

\* addLoan: loans.set(loanId, {...loanData, ltv, status: 'pending'})
addLoan(ls, loanId, borrowerId, amount, collateral, price) ==
  [ls EXCEPT ![loanId] = [status |-> "pending",
                          borrowerId |-> borrowerId,
                          amount |-> amount,
                          collateral |-> collateral,
                          ltv |-> calculateLTV(collateral, amount, price)]]

\* updateCollateral: a loan that is not found is left alone (a warning is logged).
updateCollateral(ls, loanId, additionalCollateral, price) ==
  IF loanId \notin DOMAIN ls \/ ls[loanId] = NoLoan THEN ls
  ELSE LET loan == ls[loanId]
           c == FAdd(loan.collateral, additionalCollateral)
       IN [ls EXCEPT ![loanId] = [loan EXCEPT !.collateral = c,
                                               !.ltv = calculateLTV(c, loan.amount, price)]]

recalculateLTVs(ls, price) ==
  [l \in DOMAIN ls |->
     IF ls[l] = NoLoan THEN NoLoan
     ELSE [ls[l] EXCEPT !.ltv = calculateLTV(ls[l].collateral, ls[l].amount, price)]]

\* processLoan: activation (LTV <= 0.5), then liquidation (LTV >= 0.8).
Activates(loan) == loan.status = "pending" /\ RatioLeq(loan.ltv, 1, 2)
AfterActivation(loan) == IF Activates(loan) THEN [loan EXCEPT !.status = "active"] ELSE loan
Liquidates(loan) == loan.status = "active" /\ RatioGeq(loan.ltv, 4, 5)
processLoan(loan) ==
  LET a == AfterActivation(loan)
  IN IF Liquidates(a) THEN [a EXCEPT !.status = "liquidated"] ELSE a

\* The events processLoan publishes for one loan.
processLoanEvents(l, loan) ==
  (IF Activates(loan) THEN {Event("LOAN_ACTIVATION", l)} ELSE {})
    \cup (IF Liquidates(AfterActivation(loan)) THEN {Event("LOAN_LIQUIDATION", l)} ELSE {})

\* start(): installs the price and the loan-processing intervals.
Start ==
  /\ ~running
  /\ running' = TRUE
  /\ UNCHANGED <<processedRequests, loans, currentPrice, snsInFlight, published, response, forwardVars, domainVars, entityVars, historyVars, peripheralVars>>

\* stop(): clears both intervals.
Stop ==
  /\ running
  /\ running' = FALSE
  /\ UNCHANGED <<processedRequests, loans, currentPrice, snsInFlight, published, response, forwardVars, domainVars, entityVars, historyVars, peripheralVars>>

\* The prices updatePrice can move to from p: max(10, p * (1 + change)) with
\* change in [-0.05, 0.05), on the integer grid of the model.
NextPrices(p) ==
  { q \in PriceLo..PriceHi :
      \/ 95 * p <= 100 * q /\ 100 * q < 105 * p /\ q >= MinPrice
      \/ q = MinPrice /\ 95 * p < 100 * MinPrice }

\* The 30 s interval: updatePrice, then recalculateLTVs.
UpdatePriceTick ==
  /\ running
  /\ \E q \in NextPrices(currentPrice) :
       /\ currentPrice' = q
       /\ loans' = recalculateLTVs(loans, q)
  /\ UNCHANGED <<processedRequests, running, snsInFlight, published, response, forwardVars, domainVars, entityVars, historyVars, peripheralVars>>

\* The 10 s interval: processLoans over every loan of the map.
ProcessLoansTick ==
  /\ running
  /\ loans' = [l \in LoanIds |-> IF loans[l] = NoLoan THEN NoLoan ELSE processLoan(loans[l])]
  /\ snsInFlight' = Send(snsInFlight,
                         UNION { processLoanEvents(l, loans[l]) : l \in { k \in LoanIds : loans[k] # NoLoan } })
  /\ UNCHANGED <<processedRequests, currentPrice, running, published, response, forwardVars, domainVars, entityVars, historyVars, peripheralVars>>

\* SNS acknowledges a publish in flight.
SnsAck ==
  \E e \in Events :
    /\ snsInFlight[e] > 0
    /\ snsInFlight' = [snsInFlight EXCEPT ![e] = @ - 1]
    /\ published' = Append(published, e)
    /\ UNCHANGED <<processedRequests, loans, currentPrice, running, response, forwardVars, domainVars, entityVars, historyVars, peripheralVars>>

\* SNS rejects a publish in flight; the service logs the error and goes on.
SnsFail ==
  \E e \in Events :
    /\ snsInFlight[e] > 0
    /\ snsInFlight' = [snsInFlight EXCEPT ![e] = @ - 1]
    /\ UNCHANGED <<processedRequests, loans, currentPrice, running, published, response, forwardVars, domainVars, entityVars, historyVars, peripheralVars>>

(***************************************************************************)
(* HTTP surface: validators middleware and the handlers of routes/api.ts   *)
(***************************************************************************)
Body(rid, lid, bid, amt) == [requestId |-> rid, loanId |-> lid, borrowerId |-> bid, amount |-> amt]

\* requestIds are opaque strings that are only compared for equality: a
\* client either repeats a requestId already sent or sends a new one, and the
\* new one is taken to be the first unused requestId among the first n of the pool.
FirstUnused(used, n) ==
  LET free == { i \in 1..n : RequestIdPool[i] \notin used }
  IN IF free = {} THEN {} ELSE { RequestIdPool[CHOOSE i \in free : \A j \in free : i <= j] }
RequestIdInputs(used, n) == used \cup FirstUnused(used, n)

\* Well-formed bodies.
ValidBodies(rids, bids, amts) ==
  { Body(rid, lid, bid, amt) : rid \in rids, lid \in LoanIds, bid \in bids, amt \in amts }
\* Bodies that fail schema validation: one of the four fields is empty.
InvalidBodies(rids, bids, amts) ==
  UNION { { [b EXCEPT !.requestId = ""], [b EXCEPT !.loanId = ""],
            [b EXCEPT !.borrowerId = ""], [b EXCEPT !.amount = <<>>] } :
          b \in ValidBodies(rids, bids, amts) }

\* The schema without the check of amount.
SchemaValid_NoAmount(body) ==
  /\ body.requestId # ""
  /\ body.loanId # ""
  /\ body.borrowerId # ""

\* loanApplicationSchema / collateralTopUpSchema: four non-empty strings.
SchemaValid(body) ==
  /\ body.requestId # ""
  /\ body.loanId # ""
  /\ body.amount # <<>>
  /\ body.borrowerId # ""

\* idempotencyCheck that lets a new requestId through without adding it to the Set.
idempotencyCheck_NoAdd(processed, requestId) ==
  IF requestId = "" THEN [next |-> FALSE, status |-> 400, processed |-> processed]
  ELSE IF requestId \in processed THEN [next |-> FALSE, status |-> 409, processed |-> processed]
  ELSE [next |-> TRUE, status |-> 0, processed |-> processed]

\* idempotencyCheck without the lookup in the Set: every requestId is let through.
idempotencyCheck_NoLookup(processed, requestId) ==
  IF requestId = "" THEN [next |-> FALSE, status |-> 400, processed |-> processed]
  ELSE [next |-> TRUE, status |-> 0, processed |-> processed \cup {requestId}]

\* idempotencyCheck: 400 without requestId, 409 for a requestId of the Set,
\* otherwise the requestId is added and the next handler runs.
idempotencyCheck(processed, requestId) ==
  IF requestId = "" THEN [next |-> FALSE, status |-> 400, processed |-> processed]
  ELSE IF requestId \in processed THEN [next |-> FALSE, status |-> 409, processed |-> processed]
  ELSE [next |-> TRUE, status |-> 0, processed |-> processed \cup {requestId}]

\* An event as the queue delivers it and LoanEventStore keeps it.
LoanEvent(eventType, requestId) == [eventType |-> eventType, requestId |-> requestId]
NoEvent == LoanEvent("", "")

\* Message bodies: the event as JSON, the event inside an SNS notification
\* envelope, an envelope whose Message is not JSON, and text that is not JSON.
Plain(event) == [json |-> TRUE, Type |-> "", inner |-> TRUE, event |-> event]
Notification(event) == [json |-> TRUE, Type |-> "Notification", inner |-> TRUE, event |-> event]
BrokenNotification == [json |-> TRUE, Type |-> "Notification", inner |-> FALSE, event |-> NoEvent]
NotJson == [json |-> FALSE, Type |-> "", inner |-> FALSE, event |-> NoEvent]

\* A message that was not sent to the queue yet; an actor that was not created yet.
NotSent == [body |-> NotJson, state |-> "none"]
NoActor == [created |-> FALSE, ticking |-> FALSE, actionsPerformed |-> 0]

\* EventHistoryStore.addEvent: the event is pushed and the array is cut to
\* its last maxInMemoryEvents elements.
EventData(id, type, direction, requestId) ==
  [id |-> id, type |-> type, direction |-> direction, requestId |-> requestId]

EventHistoryStore_addEvent_NoTrim(events, event) == Append(events, event)
EventHistoryStore_addEvent(events, event) ==
  LET pushed == Append(events, event)
  IN IF Len(pushed) > maxInMemoryEvents
       THEN SubSeq(pushed, Len(pushed) - maxInMemoryEvents + 1, Len(pushed))
       ELSE pushed

\* The kind of event a route publishes.
EventType(kind) == IF kind = "loan-applications" THEN "LOAN_APPLICATION" ELSE "COLLATERAL_TOP_UP"

\* The start of EventPublisher.publishEvent in process n: a fresh event id
\* (the next number stands for the uuid), then the OUTBOUND event is added
\* to the history, before anything is sent.
recordOutbound(n, type, requestId) ==
  /\ eventHistory' = [eventHistory EXCEPT ![n] =
       EventHistoryStore_addEvent(@, EventData(eventsAdded[n] + 1, type, "OUTBOUND", requestId))]
  /\ eventsAdded' = [eventsAdded EXCEPT ![n] = @ + 1]

\* The route handler of process n is entered for requestId.
Entered(runs, n, requestId) == [runs EXCEPT ![n][requestId] = @ + 1]

\* POST /loan-applications with self-publishing enabled and the fake
\* liquidation service attached: publishEvent records the event and returns,
\* the loan is added with twice the amount as collateral, 202.
PostLoanApplication(body) ==
  LET ic == idempotencyCheck(processedRequests[Primary], body.requestId)
      amount == parseFloat(body.amount)
  IN IF ~SchemaValid(body)
       THEN /\ response' = 400
            /\ UNCHANGED <<processedRequests, loans, currentPrice, running, snsInFlight, published, forwardVars, domainVars, entityVars, historyVars, peripheralVars>>
     ELSE IF ~ic.next
       THEN /\ response' = ic.status
            /\ UNCHANGED <<processedRequests, loans, currentPrice, running, snsInFlight, published, forwardVars, domainVars, entityVars, historyVars, peripheralVars>>
     ELSE /\ processedRequests' = [processedRequests EXCEPT ![Primary] = ic.processed]
          /\ loans' = addLoan(loans, body.loanId, body.borrowerId, amount, FScale(amount, 2), currentPrice)
          /\ snsInFlight' = Send(snsInFlight, {Event("LOAN_APPLICATION", body.loanId)})
          /\ handlerRuns' = Entered(handlerRuns, Primary, body.requestId)
          /\ recordOutbound(Primary, "LOAN_APPLICATION", body.requestId)
          /\ response' = 202
          /\ UNCHANGED <<currentPrice, running, published, inFlight, forwarded, domainVars, entityVars, peripheralVars>>

\* POST /collateral-top-ups in the same configuration.
PostCollateralTopUp(body) ==
  LET ic == idempotencyCheck(processedRequests[Primary], body.requestId)
  IN IF ~SchemaValid(body)
       THEN /\ response' = 400
            /\ UNCHANGED <<processedRequests, loans, currentPrice, running, snsInFlight, published, forwardVars, domainVars, entityVars, historyVars, peripheralVars>>
     ELSE IF ~ic.next
       THEN /\ response' = ic.status
            /\ UNCHANGED <<processedRequests, loans, currentPrice, running, snsInFlight, published, forwardVars, domainVars, entityVars, historyVars, peripheralVars>>
     ELSE /\ processedRequests' = [processedRequests EXCEPT ![Primary] = ic.processed]
          /\ loans' = updateCollateral(loans, body.loanId, parseFloat(body.amount), currentPrice)
          /\ handlerRuns' = Entered(handlerRuns, Primary, body.requestId)
          /\ recordOutbound(Primary, "COLLATERAL_TOP_UP", body.requestId)
          /\ response' = 202
          /\ UNCHANGED <<currentPrice, running, snsInFlight, published, inFlight, forwarded, domainVars, entityVars, peripheralVars>>

(***************************************************************************)
(* Specification: one process, self-publishing, fake liquidation service   *)
(***************************************************************************)
Constructed ==
  /\ processedRequests = [n \in Nodes |-> {}]
  /\ loans = [l \in LoanIds |-> NoLoan]
  /\ currentPrice = InitialPrice
  /\ running = FALSE
  /\ snsInFlight = [e \in Events |-> 0]
  /\ published = <<>>
  /\ response = 0
  /\ inFlight = {}
  /\ handlerRuns = [n \in Nodes |-> [r \in AllRequestIds |-> 0]]
  /\ forwarded = {}
  /\ repository = [l \in LoanIds |-> NoLoan]
  /\ borrowers = {}
  /\ executions = {}
  /\ microtasks = <<>>
  /\ credited = [l \in LoanIds |-> 0]
  /\ domainEvents = {}
  /\ entity = NoLoan
  /\ returned = [method |-> "none", value |-> "void"]
  /\ eventHistory = [n \in Nodes |-> <<>>]
  /\ eventsAdded = [n \in Nodes |-> 0]
  /\ queue = [m \in MessageIds |-> NotSent]
  /\ loanEventStore = <<>>
  /\ isRunning = FALSE
  /\ clients = {}
  /\ actors = [a \in ActorIds |-> NoActor]
  /\ listening = TRUE
  /\ statistics = [births |-> 0, deaths |-> 0]
  /\ polling = [subscribe |-> "pending", receiving |-> 0, processing |-> 0, timers |-> <<>>]

NotCalled == [pc |-> "idle"]

Init ==
  /\ Constructed
  /\ retry = NotCalled

Next ==
  \/ \E body \in ValidBodies(RequestIdInputs(processedRequests[Primary], MaxRequests), BorrowerIds, LoanAmountInputs) :
       PostLoanApplication(body)
  \/ \E body \in ValidBodies(RequestIdInputs(processedRequests[Primary], MaxRequests), BorrowerIds, TopUpAmountInputs) :
       PostCollateralTopUp(body)
  \/ \E body \in InvalidBodies(FirstUnused(processedRequests[Primary], MaxRequests), {"borrower-1"}, LoanAmountInputs) :
       PostLoanApplication(body)
  \/ \E body \in InvalidBodies(FirstUnused(processedRequests[Primary], MaxRequests), {"borrower-1"}, {Str5}) :
       PostCollateralTopUp(body)
  \/ Start
  \/ Stop
  \/ UpdatePriceTick
  \/ ProcessLoansTick
  \/ SnsAck
  \/ SnsFail

Spec == Init /\ [][Next]_vars

(***************************************************************************)
(* The same process over a longer run: one borrower, well-formed requests, *)
(* two more requestIds.                                                    *)
(***************************************************************************)
NextReapply ==
  \/ \E body \in ValidBodies(RequestIdInputs(processedRequests[Primary], MaxRequests + 2), {"borrower-1"}, LoanAmountInputs) :
       PostLoanApplication(body)
  \/ \E body \in ValidBodies(RequestIdInputs(processedRequests[Primary], MaxRequests + 2), {"borrower-1"}, TopUpAmountInputs) :
       PostCollateralTopUp(body)
  \/ Start
  \/ Stop
  \/ UpdatePriceTick
  \/ ProcessLoansTick
  \/ SnsAck
  \/ SnsFail

SpecReapply == Init /\ [][NextReapply]_vars

(***************************************************************************)
(* The same process under clients that repeat requests: every request,     *)
(* well-formed or not, carries a requestId already sent or the next new    *)
(* one; top-ups are of 5.                                                  *)
(***************************************************************************)
RepeatRequestIds == { RequestIdPool[i] : i \in 1..MaxRepeatRequests }
RepeatLoanBodies ==
  ValidBodies(RepeatRequestIds, {"borrower-1"}, LoanAmountInputs)
    \cup InvalidBodies(RepeatRequestIds, {"borrower-1"}, {Str500})
RepeatTopUpBodies ==
  ValidBodies(RepeatRequestIds, {"borrower-1"}, {Str5})
    \cup InvalidBodies(RepeatRequestIds, {"borrower-1"}, {Str5})
\* The bodies whose requestId was sent before or is the next new one ("" for
\* a body without requestId).
Sendable(bodies) ==
  { body \in bodies :
      body.requestId \in RequestIdInputs(processedRequests[Primary], MaxRepeatRequests) \cup {""} }

NextRepeat ==
  \/ \E body \in Sendable(RepeatLoanBodies) : PostLoanApplication(body)
  \/ \E body \in Sendable(RepeatTopUpBodies) : PostCollateralTopUp(body)
  \/ Start
  \/ Stop
  \/ UpdatePriceTick
  \/ ProcessLoansTick
  \/ SnsAck
  \/ SnsFail

SpecRepeat == Init /\ [][NextRepeat]_vars

(***************************************************************************)
(* The same process under clients whose applications carry an amount that  *)
(* is not a positive decimal: zero, a negative number, letters.            *)
(***************************************************************************)
UncheckedAmountInputs == { Str500, Str0, StrNeg995, StrAbc }
UncheckedLoanBodies ==
  ValidBodies(RepeatRequestIds, {"borrower-1"}, UncheckedAmountInputs)
    \cup InvalidBodies(RepeatRequestIds, {"borrower-1"}, {Str500})

NextUnchecked ==
  \/ \E body \in Sendable(UncheckedLoanBodies) : PostLoanApplication(body)
  \/ \E body \in Sendable(RepeatTopUpBodies) : PostCollateralTopUp(body)
  \/ Start
  \/ Stop
  \/ UpdatePriceTick
  \/ ProcessLoansTick
  \/ SnsAck
  \/ SnsFail

SpecUnchecked == Init /\ [][NextUnchecked]_vars

(***************************************************************************)
(* The same process while the service runs: stop() is not called, start()  *)
(* is called at boot and setInterval keeps firing both callbacks; SNS      *)
(* answers every publish.                                                  *)
(***************************************************************************)
NextRunning ==
  \/ \E body \in Sendable(RepeatLoanBodies) : PostLoanApplication(body)
  \/ \E body \in Sendable(RepeatTopUpBodies) : PostCollateralTopUp(body)
  \/ Start
  \/ UpdatePriceTick
  \/ ProcessLoansTick
  \/ SnsAck
  \/ SnsFail

SpecRunning ==
  /\ Init /\ [][NextRunning]_vars
  /\ WF_vars(Start)
  /\ WF_vars(UpdatePriceTick)
  /\ WF_vars(ProcessLoansTick)
  /\ WF_vars(SnsAck \/ SnsFail)

(***************************************************************************)
(* Forwarding configuration (self-publishing disabled): the handler        *)
(* publishes the event to SNS, then forwards the body to the remote        *)
(* liquidation service over HTTP, then answers. Each await on I/O suspends *)
(* the handler; other requests are served meanwhile.                       *)
(***************************************************************************)
\* attempts: how often the outbound call the handler awaits has been made.
Handler(n, kind, requestId, pc) ==
  [node |-> n, kind |-> kind, requestId |-> requestId, pc |-> pc, attempts |-> 1]

\* Validation, idempotency check, and the handler up to the await of
\* snsPublisher.publish inside publishEvent.
HandleForwarding(n, kind, body) ==
  LET ic == idempotencyCheck(processedRequests[n], body.requestId)
  IN IF ~SchemaValid(body)
       THEN /\ response' = 400
            /\ UNCHANGED <<processedRequests, forwardVars, historyVars>>
     ELSE IF ~ic.next
       THEN /\ response' = ic.status
            /\ UNCHANGED <<processedRequests, forwardVars, historyVars>>
     ELSE /\ processedRequests' = [processedRequests EXCEPT ![n] = ic.processed]
          /\ handlerRuns' = Entered(handlerRuns, n, body.requestId)
          /\ recordOutbound(n, EventType(kind), body.requestId)
          /\ inFlight' = inFlight \cup {Handler(n, kind, body.requestId, "publishing")}
          /\ UNCHANGED <<response, forwarded>>

ForwardLoanApplication(n, body) ==
  /\ HandleForwarding(n, "loan-applications", body)
  /\ UNCHANGED <<loans, currentPrice, running, snsInFlight, published, domainVars, entityVars, peripheralVars>>

ForwardCollateralTopUp(n, body) ==
  /\ HandleForwarding(n, "collateral-top-ups", body)
  /\ UNCHANGED <<loans, currentPrice, running, snsInFlight, published, domainVars, entityVars, peripheralVars>>

\* snsPublisher.publish resolves: the handler goes on to axios.post, called once.
PublishResolved ==
  \E h \in inFlight :
    /\ h.pc = "publishing"
    /\ inFlight' = (inFlight \ {h}) \cup {[h EXCEPT !.pc = "forwarding"]}
    /\ UNCHANGED <<processedRequests, loans, currentPrice, running, snsInFlight, published,
                   response, handlerRuns, forwarded, domainVars, entityVars, historyVars, peripheralVars>>

\* snsPublisher.publish rejects: publishEvent rethrows, the handler answers 500.
PublishRejected ==
  \E h \in inFlight :
    /\ h.pc = "publishing"
    /\ inFlight' = inFlight \ {h}
    /\ response' = 500
    /\ UNCHANGED <<processedRequests, loans, currentPrice, running, snsInFlight, published,
                   handlerRuns, forwarded, domainVars, entityVars, historyVars, peripheralVars>>

\* axios.post resolves: the liquidation service has the request, 202.
ForwardResolved ==
  \E h \in inFlight :
    /\ h.pc = "forwarding"
    /\ inFlight' = inFlight \ {h}
    /\ forwarded' = forwarded \cup {[node |-> h.node, kind |-> h.kind, requestId |-> h.requestId]}
    /\ response' = 202
    /\ UNCHANGED <<processedRequests, loans, currentPrice, running, snsInFlight, published,
                   handlerRuns, domainVars, entityVars, historyVars, peripheralVars>>

\* axios.post rejects: 500.
ForwardRejected ==
  \E h \in inFlight :
    /\ h.pc = "forwarding"
    /\ inFlight' = inFlight \ {h}
    /\ response' = 500
    /\ UNCHANGED <<processedRequests, loans, currentPrice, running, snsInFlight, published,
                   handlerRuns, forwarded, domainVars, entityVars, historyVars, peripheralVars>>

\* The requestIds a client of the forwarding processes sends: one that some
\* process has seen, or the next new one.
Seen == UNION { processedRequests[n] : n \in Nodes }
ForwardBodies(amts) ==
  LET rids == RequestIdInputs(Seen, MaxRepeatRequests)
  IN ValidBodies(rids, {"borrower-1"}, amts) \cup InvalidBodies(rids \cup {""}, {"borrower-1"}, amts)

\* One process in the forwarding configuration.
NextForward ==
  \/ \E body \in ForwardBodies({Str500}) : ForwardLoanApplication(Primary, body)
  \/ \E body \in ForwardBodies({Str5}) : ForwardCollateralTopUp(Primary, body)
  \/ PublishResolved
  \/ PublishRejected
  \/ ForwardResolved
  \/ ForwardRejected

SpecForward == Init /\ [][NextForward]_vars

\* Several processes in the forwarding configuration behind one address, all
\* forwarding to the same liquidation service.
NextCluster ==
  \/ \E n \in Nodes, body \in ForwardBodies({Str500}) : ForwardLoanApplication(n, body)
  \/ \E n \in Nodes, body \in ForwardBodies({Str5}) : ForwardCollateralTopUp(n, body)
  \/ PublishResolved
  \/ PublishRejected
  \/ ForwardResolved
  \/ ForwardRejected

SpecCluster == Init /\ [][NextCluster]_vars

(***************************************************************************)
(* Layered variant (main.ts): createLoanRoutes, LoanController, the two    *)
(* use cases, the in-memory repositories and the value objects. A use case *)
(* is an async function: it runs up to an await, and its continuation runs *)
(* later, after the continuations queued before it. A call can start while *)
(* continuations are queued (calls started in the same turn); an I/O       *)
(* completion is delivered once the queue is empty.                        *)
(***************************************************************************)
SupportedAssetTypes == { "BSK" }
AssetTypeInputs == { "BSK", "ETH" }
minimumCollateralRatio == 2

DomainBody(rid, lid, bid, amt, coll, asset) ==
  [requestId |-> rid, loanId |-> lid, borrowerId |-> bid, amount |-> amt,
   collateralAmount |-> coll, assetType |-> asset]

\* new Amount(value): NaN and negative numbers throw; the value is rounded
\* to two decimals, Math.round(value * 100) / 100.
AmountThrows(n) == n.nan \/ n.v < 0
Amount(n) == F(((n.v + 5) \div 10) * 10)
\* Amount.add, Amount.multiply: a new Amount of the sum, of the product.
AmountAdd(a, b) == Amount(FAdd(a, b))
AmountMultiply(a, factor) == Amount(FScale(a, factor))

\* LoanRiskAssessmentService.isCollateralSufficient
isCollateralSufficient(loanAmount, collateralAmount) ==
  LET requiredCollateral == AmountMultiply(loanAmount, minimumCollateralRatio)
  IN collateralAmount.v > requiredCollateral.v \/ collateralAmount.v = requiredCollateral.v

\* Loan.create: a PENDING loan.
LoanCreate(borrowerId, amount, collateralAmount) ==
  [status |-> "PENDING", borrowerId |-> borrowerId, amount |-> amount,
   collateralAmount |-> collateralAmount]
\* Loan.addCollateral: no look at the status.
addCollateral(loan, amount) ==
  [loan EXCEPT !.collateralAmount = AmountAdd(loan.collateralAmount, amount)]

\* InMemoryLoanRepository: save is Map.set, findById hands out a copy.
save(repo, loanId, loan) == [repo EXCEPT ![loanId] = loan]
findById(repo, loanId) == IF loanId \in DOMAIN repo THEN repo[loanId] ELSE NoLoan

Execution(kind, body, pc, loan, borrowerKnown) ==
  [requestId |-> body.requestId, kind |-> kind, loanId |-> body.loanId,
   borrowerId |-> body.borrowerId, amount |-> Amount(parseFloat(body.amount)),
   collateralAmount |-> IF kind = "application" THEN Amount(parseFloat(body.collateralAmount)) ELSE F(0),
   pc |-> pc, loan |-> loan, borrowerKnown |-> borrowerKnown]

\* The execution whose continuation is first in the queue.
Current == CHOOSE e \in executions : e.requestId = Head(microtasks)
Suspend(e, pc, loan) == (executions \ {e}) \cup {[e EXCEPT !.pc = pc, !.loan = loan]}

\* POST /api/collateral-top-ups: validation, idempotency check, controller,
\* SubmitCollateralTopUpUseCase.execute up to `await loanRepository.findById`.
SubmitCollateralTopUp(body) ==
  LET ic == idempotencyCheck(processedRequests[Primary], body.requestId)
  IN /\ IF ~SchemaValid(body)
          THEN /\ response' = 400
               /\ UNCHANGED <<processedRequests, domainVars>>
        ELSE IF ~ic.next
          THEN /\ response' = ic.status
               /\ UNCHANGED <<processedRequests, domainVars>>
        ELSE /\ processedRequests' = [processedRequests EXCEPT ![Primary] = ic.processed]
             /\ IF AmountThrows(parseFloat(body.amount)) \/ body.assetType \notin SupportedAssetTypes
                  THEN /\ response' = 500
                       /\ UNCHANGED domainVars
                  ELSE /\ executions' = executions \cup
                            {Execution("top-up", body, "found", findById(repository, body.loanId), FALSE)}
                       /\ microtasks' = Append(microtasks, body.requestId)
                       /\ UNCHANGED <<response, repository, borrowers, credited, domainEvents>>
     /\ UNCHANGED <<loans, currentPrice, running, snsInFlight, published, forwardVars, entityVars, historyVars, peripheralVars>>

\* The rest of the top-up after findById: NotFound, BorrowerMismatch, or
\* loan.addCollateral and `await loanRepository.save`.
TopUpContinue ==
  /\ microtasks # <<>>
  /\ Current.pc = "found"
  /\ LET e == Current
     IN IF e.loan = NoLoan \/ e.loan.borrowerId # e.borrowerId
          THEN /\ response' = IF e.loan = NoLoan THEN 404 ELSE 400
               /\ executions' = executions \ {e}
               /\ microtasks' = Tail(microtasks)
               /\ UNCHANGED <<repository, borrowers, credited, domainEvents>>
          ELSE LET updated == addCollateral(e.loan, e.amount)
               IN /\ repository' = save(repository, e.loanId, updated)
                  /\ credited' = [credited EXCEPT ![e.loanId] = @ + e.amount.v]
                  /\ executions' = Suspend(e, "saved", updated)
                  /\ microtasks' = Append(Tail(microtasks), e.requestId)
                  /\ UNCHANGED <<response, borrowers, domainEvents>>
  /\ UNCHANGED <<processedRequests, loans, currentPrice, running, snsInFlight, published, forwardVars, entityVars, historyVars, peripheralVars>>

\* POST /api/loan-applications: validation, idempotency check, controller,
\* SubmitLoanApplicationUseCase.execute up to `await borrowerRepository.findById`.
SubmitLoanApplication(body) ==
  LET ic == idempotencyCheck(processedRequests[Primary], body.requestId)
      amount == parseFloat(body.amount)
      collateralAmount == parseFloat(body.collateralAmount)
  IN /\ IF ~SchemaValid(body)
          THEN /\ response' = 400
               /\ UNCHANGED <<processedRequests, domainVars>>
        ELSE IF ~ic.next
          THEN /\ response' = ic.status
               /\ UNCHANGED <<processedRequests, domainVars>>
        ELSE /\ processedRequests' = [processedRequests EXCEPT ![Primary] = ic.processed]
             /\ IF \/ AmountThrows(amount) \/ AmountThrows(collateralAmount)
                   \/ body.assetType \notin SupportedAssetTypes
                  THEN /\ response' = 500
                       /\ UNCHANGED domainVars
                ELSE IF ~isCollateralSufficient(Amount(amount), Amount(collateralAmount))
                  THEN /\ response' = 400
                       /\ UNCHANGED domainVars
                  ELSE /\ executions' = executions \cup
                            {Execution("application", body, "borrower-found", NoLoan,
                                       body.borrowerId \in borrowers)}
                       /\ microtasks' = Append(microtasks, body.requestId)
                       /\ UNCHANGED <<response, repository, borrowers, credited, domainEvents>>
     /\ UNCHANGED <<loans, currentPrice, running, snsInFlight, published, forwardVars, entityVars, historyVars, peripheralVars>>

\* Loan.create and `await loanRepository.save(loan)`.
CreateAndSave(e) ==
  LET loan == LoanCreate(e.borrowerId, e.amount, e.collateralAmount)
  IN /\ repository' = save(repository, e.loanId, loan)
     /\ credited' = [credited EXCEPT ![e.loanId] = e.collateralAmount.v]
     /\ executions' = Suspend(e, "saved", loan)
     /\ microtasks' = Append(Tail(microtasks), e.requestId)

\* The application after borrowerRepository.findById: an unknown borrower is
\* saved first (one more await), then the loan is created and saved.
ApplicationContinue ==
  /\ microtasks # <<>>
  /\ Current.pc = "borrower-found"
  /\ LET e == Current
     IN IF ~e.borrowerKnown
          THEN /\ borrowers' = borrowers \cup {e.borrowerId}
               /\ executions' = Suspend(e, "borrower-saved", e.loan)
               /\ microtasks' = Append(Tail(microtasks), e.requestId)
               /\ UNCHANGED <<repository, credited>>
          ELSE /\ CreateAndSave(e)
               /\ UNCHANGED borrowers
  /\ UNCHANGED <<processedRequests, loans, currentPrice, running, snsInFlight, published,
                 response, domainEvents, forwardVars, entityVars, historyVars, peripheralVars>>

ApplicationAfterBorrowerSave ==
  /\ microtasks # <<>>
  /\ Current.pc = "borrower-saved"
  /\ CreateAndSave(Current)
  /\ UNCHANGED <<processedRequests, loans, currentPrice, running, snsInFlight, published,
                 response, borrowers, domainEvents, forwardVars, entityVars, historyVars, peripheralVars>>

\* DomainEvent: eventId = RequestId.generate(), a uuid (v4) that no earlier
\* event carries.
NewEventIds == EventIds \ { ev.eventId : ev \in domainEvents }
DomainEvent(eventId, e) ==
  [eventId |-> eventId, eventType |-> e.kind, loanId |-> e.loanId, borrowerId |-> e.borrowerId,
   amount |-> e.amount, requestId |-> e.requestId, outcome |-> "sent"]
Settle(e, outcome) ==
  { IF ev.requestId = e.requestId THEN [ev EXCEPT !.outcome = outcome] ELSE ev : ev \in domainEvents }

\* After the save: the domain event is created and handed to the event
\* publisher (or to the liquidation service); the use case awaits the I/O.
Deliver ==
  /\ microtasks # <<>>
  /\ Current.pc = "saved"
  /\ \E eventId \in NewEventIds :
       domainEvents' = domainEvents \cup {DomainEvent(eventId, Current)}
  /\ executions' = Suspend(Current, "delivering", Current.loan)
  /\ microtasks' = Tail(microtasks)
  /\ UNCHANGED <<processedRequests, loans, currentPrice, running, snsInFlight, published,
                 response, repository, borrowers, credited, forwardVars, entityVars, historyVars, peripheralVars>>

\* The I/O completes, once no continuation is left to run: 202.
DeliveryResolved ==
  /\ microtasks = <<>>
  /\ \E e \in executions :
       /\ e.pc = "delivering"
       /\ executions' = executions \ {e}
       /\ domainEvents' = Settle(e, "acknowledged")
       /\ response' = 202
  /\ UNCHANGED <<processedRequests, loans, currentPrice, running, snsInFlight, published,
                 repository, borrowers, microtasks, credited, forwardVars, entityVars, historyVars, peripheralVars>>

\* The I/O fails: the error is not a domain or application exception, 500.
DeliveryRejected ==
  /\ microtasks = <<>>
  /\ \E e \in executions :
       /\ e.pc = "delivering"
       /\ executions' = executions \ {e}
       /\ domainEvents' = Settle(e, "failed")
       /\ response' = 500
  /\ UNCHANGED <<processedRequests, loans, currentPrice, running, snsInFlight, published,
                 repository, borrowers, microtasks, credited, forwardVars, entityVars, historyVars, peripheralVars>>

DomainRequestIds == RequestIdInputs(processedRequests[Primary], MaxDomainRequests)
DomainApplicationBodies ==
  { DomainBody(rid, lid, bid, amt, Str500, asset) :
      rid \in DomainRequestIds, lid \in LoanIds, bid \in BorrowerIds,
      amt \in LoanAmountInputs, asset \in AssetTypeInputs }
DomainTopUpBodies ==
  { DomainBody(rid, lid, bid, amt, <<>>, asset) :
      rid \in DomainRequestIds, lid \in LoanIds, bid \in BorrowerIds,
      amt \in TopUpAmountInputs, asset \in AssetTypeInputs }

NextDomain ==
  \/ \E body \in DomainApplicationBodies : SubmitLoanApplication(body)
  \/ \E body \in DomainTopUpBodies : SubmitCollateralTopUp(body)
  \/ TopUpContinue
  \/ ApplicationContinue
  \/ ApplicationAfterBorrowerSave
  \/ Deliver
  \/ DeliveryResolved
  \/ DeliveryRejected

SpecDomain == Init /\ [][NextDomain]_vars

(***************************************************************************)
(* The Loan entity and LtvRatio: the public methods of the class, called   *)
(* on one Loan object with a price in whole credits.                       *)
(***************************************************************************)
activationThreshold == 50
liquidationThreshold == 80

\* new LtvRatio(loanAmount, collateralValue): throws on a collateral value of
\* zero; the value is loanAmount / collateralValue * 100, a percentage.
LtvRatioThrows(collateralValue) == collateralValue.v = 0
LtvRatio(loanAmount, collateralValue) == Ratio(loanAmount.v * 100, collateralValue.v)
isAboveThreshold(ltv, threshold) == ltv.num > threshold * ltv.den
isBelowThreshold(ltv, threshold) == ltv.num < threshold * ltv.den

\* Loan.calculateLtv: LtvRatio(amount, collateralAmount.multiply(price)).
collateralValueAt(loan, price) == AmountMultiply(loan.collateralAmount, price)
calculateLtv(loan, price) == LtvRatio(loan.amount, collateralValueAt(loan, price))
\* Loan.canActivate, Loan.shouldLiquidate: the status is looked at first.
canActivate(loan, price, threshold) ==
  IF loan.status # "PENDING" THEN "false"
  ELSE IF LtvRatioThrows(collateralValueAt(loan, price)) THEN "throws"
  ELSE IF isBelowThreshold(calculateLtv(loan, price), threshold) THEN "true" ELSE "false"
shouldLiquidate(loan, price, threshold) ==
  IF loan.status # "ACTIVE" THEN "false"
  ELSE IF LtvRatioThrows(collateralValueAt(loan, price)) THEN "throws"
  ELSE IF isAboveThreshold(calculateLtv(loan, price), threshold) THEN "true" ELSE "false"

serviceVars == <<processedRequests, loans, currentPrice, running, snsInFlight, published, response,
                 forwardVars, domainVars, historyVars, peripheralVars>>

\* What a call of a method of the Loan object gave back.
Returned(method, value) == [method |-> method, value |-> value]

\* Loan.create(id, borrowerId, new Amount(amount), new Amount(collateralAmount), assetType)
LoanCreateCall(amount, collateralAmount) ==
  /\ entity = NoLoan
  /\ entity' = LoanCreate("borrower-1", Amount(parseFloat(amount)), Amount(parseFloat(collateralAmount)))
  /\ returned' = Returned("create", "void")
  /\ UNCHANGED serviceVars

\* activate(), liquidate(), repay(): the status is changed from the one
\* status the method accepts, an Error is thrown from any other.
transition(loan, from, to) ==
  IF loan.status # from
    THEN [loan |-> loan, value |-> "throws"]
    ELSE [loan |-> [loan EXCEPT !.status = to], value |-> "void"]
activate(loan) == transition(loan, "PENDING", "ACTIVE")
liquidate(loan) == transition(loan, "ACTIVE", "LIQUIDATED")
repay(loan) == transition(loan, "ACTIVE", "REPAID")

LoanActivate ==
  /\ entity # NoLoan
  /\ entity' = activate(entity).loan
  /\ returned' = Returned("activate", activate(entity).value)
  /\ UNCHANGED serviceVars
LoanLiquidate ==
  /\ entity # NoLoan
  /\ entity' = liquidate(entity).loan
  /\ returned' = Returned("liquidate", liquidate(entity).value)
  /\ UNCHANGED serviceVars
LoanRepay ==
  /\ entity # NoLoan
  /\ entity' = repay(entity).loan
  /\ returned' = Returned("repay", repay(entity).value)
  /\ UNCHANGED serviceVars

\* loan.addCollateral(new Amount(amount))
LoanAddCollateral(amount) ==
  /\ entity # NoLoan
  /\ entity.collateralAmount.v + parseFloat(amount).v <= MaxCollateral * 1000
  /\ entity' = addCollateral(entity, Amount(parseFloat(amount)))
  /\ returned' = Returned("addCollateral", "void")
  /\ UNCHANGED serviceVars

\* loan.canActivate(price), loan.shouldLiquidate(price) with the default thresholds.
LoanCanActivate(price) ==
  /\ entity # NoLoan
  /\ returned' = Returned("canActivate", canActivate(entity, price, activationThreshold))
  /\ UNCHANGED <<entity, serviceVars>>
LoanShouldLiquidate(price) ==
  /\ entity # NoLoan
  /\ returned' = Returned("shouldLiquidate", shouldLiquidate(entity, price, liquidationThreshold))
  /\ UNCHANGED <<entity, serviceVars>>

EntityPrices == 1..2
NextEntity ==
  \/ \E amount \in {Str4, Str5} : LoanCreateCall(amount, Str5)
  \/ LoanActivate
  \/ LoanLiquidate
  \/ LoanRepay
  \/ \E amount \in {Str3} : LoanAddCollateral(amount)
  \/ \E price \in EntityPrices : LoanCanActivate(price)
  \/ \E price \in EntityPrices : LoanShouldLiquidate(price)

SpecEntity == Init /\ [][NextEntity]_vars

(***************************************************************************)
(* Self-publishing enabled and no fake liquidation service set, which is   *)
(* how index.ts creates the router: publishEvent records the event and     *)
(* returns without sending it, globalFakeLiquidationService is null.       *)
(***************************************************************************)
PostUnattached(n, kind, body) ==
  LET ic == idempotencyCheck(processedRequests[n], body.requestId)
  IN /\ IF ~SchemaValid(body)
          THEN /\ response' = 400
               /\ UNCHANGED <<processedRequests, handlerRuns, historyVars>>
        ELSE IF ~ic.next
          THEN /\ response' = ic.status
               /\ UNCHANGED <<processedRequests, handlerRuns, historyVars>>
        ELSE /\ processedRequests' = [processedRequests EXCEPT ![n] = ic.processed]
             /\ handlerRuns' = Entered(handlerRuns, n, body.requestId)
             /\ recordOutbound(n, EventType(kind), body.requestId)
             /\ response' = 202
     /\ UNCHANGED <<loans, currentPrice, running, snsInFlight, published, inFlight, forwarded,
                    domainVars, entityVars, peripheralVars>>

UnattachedBodies(amts) ==
  LET rids == RequestIdInputs(Seen, MaxRequests)
  IN ValidBodies(rids, {"borrower-1"}, amts) \cup InvalidBodies(rids \cup {""}, {"borrower-1"}, amts)

NextUnattached ==
  \/ \E n \in Nodes, body \in UnattachedBodies({Str500}) : PostUnattached(n, "loan-applications", body)
  \/ \E n \in Nodes, body \in UnattachedBodies({Str5}) : PostUnattached(n, "collateral-top-ups", body)

SpecUnattached == Init /\ [][NextUnattached]_vars

(***************************************************************************)
(* The SQS consumer: receiveAndProcessMessages with LoanEventHandler.      *)
(* handleMessage has no await on I/O, so the handlers of one batch run to  *)
(* their end, in the order of the batch, before anything else happens; a   *)
(* handler that returned is followed by the DeleteMessage call.            *)
(***************************************************************************)
Parses(messageBody) ==
  messageBody.json /\ (messageBody.Type = "Notification" => messageBody.inner)

\* LoanEventHandler.handleMessage: JSON.parse of the body and, for an SNS
\* notification, of its Message; an error is logged and thrown again.
handleMessage_Swallowed(messageBody) ==
  [ok |-> TRUE, event |-> messageBody.event]
handleMessage(messageBody) ==
  IF Parses(messageBody) THEN [ok |-> TRUE, event |-> messageBody.event]
  ELSE [ok |-> FALSE, event |-> NoEvent]

\* LoanEventStore.addEvent: the event is pushed, nothing is ever removed.
LoanEventStore_addEvent(events, event) == Append(events, event)

\* A producer (SNS, or a client of the queue) sends a message.
MessageBodies ==
  { Plain(LoanEvent("LOAN_APPLICATION", "req-1")),
    Notification(LoanEvent("COLLATERAL_TOP_UP", "req-2")),
    BrokenNotification, NotJson }
SendMessage(m, body) ==
  /\ queue[m].state = "none"
  /\ queue' = [queue EXCEPT ![m] = [body |-> body, state |-> "visible"]]
  /\ UNCHANGED <<loanEventStore, simulatorVars, historyVars, coreVars>>

\* The messages of a batch, one after the other: the handler stores the
\* event in both stores and the delete is sent, or the handler throws and
\* the message is left as received.
RECURSIVE processMessages(_, _)
processMessages(batch, st) ==
  IF batch = <<>> THEN st
  ELSE LET m == Head(batch)
           r == handleMessage(st.queue[m].body)
       IN processMessages(Tail(batch),
            IF r.ok
              THEN [store |-> LoanEventStore_addEvent(st.store, r.event),
                    history |-> EventHistoryStore_addEvent(st.history,
                                  EventData(st.added + 1, r.event.eventType, "INBOUND", r.event.requestId)),
                    added |-> st.added + 1,
                    queue |-> [st.queue EXCEPT ![m].state = "deleting"]]
              ELSE [st EXCEPT !.queue[m].state = "invisible"])

\* The batches one ReceiveMessage call can return: visible messages, in any order.
Batches ==
  LET visible == { m \in MessageIds : queue[m].state = "visible" }
  IN { b \in UNION { [1..k -> visible] : k \in 1..Cardinality(visible) } :
         \A i, j \in DOMAIN b : i # j => b[i] # b[j] }

receiveAndProcessMessages(batch) ==
  LET st == processMessages(batch, [store |-> loanEventStore, history |-> eventHistory[Primary],
                                    added |-> eventsAdded[Primary], queue |-> queue])
  IN /\ Len(loanEventStore) + Len(batch) <= MaxStored
     /\ loanEventStore' = st.store
     /\ eventHistory' = [eventHistory EXCEPT ![Primary] = st.history]
     /\ eventsAdded' = [eventsAdded EXCEPT ![Primary] = st.added]
     /\ queue' = st.queue
     /\ UNCHANGED <<simulatorVars, coreVars>>

\* The DeleteMessage call is answered: the message is gone, or the call
\* failed, which is logged.
DeleteResolved(m) ==
  /\ queue[m].state = "deleting"
  /\ queue' = [queue EXCEPT ![m].state = "deleted"]
  /\ UNCHANGED <<loanEventStore, simulatorVars, historyVars, coreVars>>
DeleteRejected(m) ==
  /\ queue[m].state = "deleting"
  /\ queue' = [queue EXCEPT ![m].state = "invisible"]
  /\ UNCHANGED <<loanEventStore, simulatorVars, historyVars, coreVars>>

\* The visibility timeout of a received message that was not deleted ends.
VisibilityTimeout(m) ==
  /\ queue[m].state = "invisible"
  /\ queue' = [queue EXCEPT ![m].state = "visible"]
  /\ UNCHANGED <<loanEventStore, simulatorVars, historyVars, coreVars>>

NextConsumer ==
  \/ \E m \in MessageIds, body \in MessageBodies : SendMessage(m, body)
  \/ \E batch \in Batches : receiveAndProcessMessages(batch)
  \/ \E m \in MessageIds : DeleteResolved(m)
  \/ \E m \in MessageIds : DeleteRejected(m)
  \/ \E m \in MessageIds : VisibilityTimeout(m)

SpecConsumer == Init /\ [][NextConsumer]_vars

(***************************************************************************)
(* The client simulator: ClientSimulator, its ClientActors and the routes  *)
(* POST /simulation/start and POST /simulation/stop. The requests an actor *)
(* sends to the API are left out; an actor's tick either ends its life or  *)
(* does not.                                                               *)
(***************************************************************************)
Simulator(runs, map, acts, listens, stats) ==
  [isRunning |-> runs, clients |-> map, actors |-> acts, listening |-> listens, statistics |-> stats]
TheSimulator == Simulator(isRunning, clients, actors, listening, statistics)

Uncreated(sim) == { a \in ActorIds : ~sim.actors[a].created }
Min(S) == CHOOSE x \in S : \A y \in S : x <= y

\* The 'action' listener of setupEventListeners counts births and deaths.
emitAction(sim, action) ==
  IF ~sim.listening THEN sim
  ELSE IF action = "BIRTH" THEN [sim EXCEPT !.statistics.births = @ + 1]
  ELSE IF action = "DEATH" THEN [sim EXCEPT !.statistics.deaths = @ + 1]
  ELSE sim

\* ClientSimulator.spawnClient: a new ClientActor (with a fresh borrowerId)
\* is put in the Map and started; ClientActor.start emits BIRTH and installs
\* the interval.
spawnClient(sim) ==
  LET a == Min(Uncreated(sim))
  IN emitAction([sim EXCEPT !.clients = @ \cup {a},
                            !.actors[a] = [created |-> TRUE, ticking |-> TRUE, actionsPerformed |-> 0]],
                "BIRTH")

RECURSIVE spawnClients(_, _)
spawnClients(sim, count) ==
  IF count = 0 THEN sim ELSE spawnClients(spawnClient(sim), count - 1)

\* ClientSimulator.start
start(sim) ==
  IF sim.isRunning THEN sim
  ELSE [spawnClients(sim, maxClients) EXCEPT !.isRunning = TRUE]

\* ClientSimulator.stop: every actor of the Map is stopped, the Map is
\* cleared, all listeners of the emitter are removed.
stop(sim) ==
  IF ~sim.isRunning THEN sim
  ELSE [sim EXCEPT !.actors = [a \in ActorIds |->
                       IF a \in sim.clients THEN [sim.actors[a] EXCEPT !.ticking = FALSE]
                       ELSE sim.actors[a]],
                   !.clients = {},
                   !.listening = FALSE,
                   !.isRunning = FALSE]

\* The 'die' listener of setupEventListeners: the dead client is taken out
\* of the Map and a new one is spawned.
emitDie(sim, a) ==
  IF ~sim.listening THEN sim
  ELSE spawnClient([sim EXCEPT !.clients = @ \ {a}])

\* ClientActor.die: stop(), the DEATH action, the 'die' event.
die(sim, a) ==
  emitDie(emitAction([sim EXCEPT !.actors[a].ticking = FALSE], "DEATH"), a)

Becomes(sim) ==
  /\ isRunning' = sim.isRunning
  /\ clients' = sim.clients
  /\ actors' = sim.actors
  /\ listening' = sim.listening
  /\ statistics' = sim.statistics

\* POST /simulation/start
SimulationStart_Unguarded ==
  /\ Cardinality(Uncreated(TheSimulator)) >= maxClients
  /\ Becomes([spawnClients(TheSimulator, maxClients) EXCEPT !.isRunning = TRUE])
  /\ response' = 200
  /\ UNCHANGED <<consumerVars, historyVars, simulationRest>>
SimulationStart ==
  IF isRunning
    THEN /\ response' = 409
         /\ UNCHANGED <<simulatorVars, consumerVars, historyVars, simulationRest>>
    ELSE /\ Cardinality(Uncreated(TheSimulator)) >= maxClients
         /\ Becomes(start(TheSimulator))
         /\ response' = 200
         /\ UNCHANGED <<consumerVars, historyVars, simulationRest>>

\* POST /simulation/stop
SimulationStop ==
  IF ~isRunning
    THEN /\ response' = 409
         /\ UNCHANGED <<simulatorVars, consumerVars, historyVars, simulationRest>>
    ELSE /\ Becomes(stop(TheSimulator))
         /\ response' = 200
         /\ UNCHANGED <<consumerVars, historyVars, simulationRest>>

\* ClientActor.performRandomAction when the actor does not die: possible
\* while the death probability, actionsPerformed * 0.1, is below 1.
ActorActs_Immortal(a) ==
  /\ actors[a].ticking
  /\ actors' = [actors EXCEPT ![a].actionsPerformed = @ + 1]
  /\ UNCHANGED <<isRunning, clients, listening, statistics, response, consumerVars, historyVars, simulationRest>>
ActorActs(a) ==
  /\ actors[a].ticking
  /\ actors[a].actionsPerformed + 1 < deathAfter
  /\ actors' = [actors EXCEPT ![a].actionsPerformed = @ + 1]
  /\ UNCHANGED <<isRunning, clients, listening, statistics, response, consumerVars, historyVars, simulationRest>>

\* ClientActor.performRandomAction when the actor dies: possible at every
\* tick, certain at the tenth.
ActorDies(a) ==
  /\ actors[a].ticking
  /\ listening => Uncreated(TheSimulator) # {}
  /\ Becomes(die([TheSimulator EXCEPT !.actors[a].actionsPerformed = @ + 1], a))
  /\ UNCHANGED <<response, consumerVars, historyVars, simulationRest>>

NextSimulation ==
  \/ SimulationStart
  \/ SimulationStop
  \/ \E a \in ActorIds : ActorActs(a)
  \/ \E a \in ActorIds : ActorDies(a)

SpecSimulation == Init /\ [][NextSimulation]_vars

(***************************************************************************)
(* Properties                                                              *)
(***************************************************************************)
\* Every body a client can send to the process.
LoanApplicationBodies ==
  ValidBodies(RequestIds, BorrowerIds, LoanAmountInputs)
    \cup InvalidBodies(RequestIds, BorrowerIds, LoanAmountInputs)
TopUpBodies ==
  ValidBodies(RequestIds, BorrowerIds, TopUpAmountInputs)
    \cup InvalidBodies(RequestIds, BorrowerIds, TopUpAmountInputs)

Known(l) == loans[l] # NoLoan

\* Position of a status in the life cycle of a loan.
Rank(status) ==
  CASE status = "none" -> 0
    [] status = "pending" -> 1
    [] status = "active" -> 2
    [] status = "liquidated" -> 3

\* C1: the status of a loan only moves forward (new, active, liquidated): no
\* step takes a loan back to an earlier status.
C1_StatusOnlyForward ==
  [][\A l \in LoanIds : Rank(loans'[l].status) >= Rank(loans[l].status)]_vars

\* C2: over every history at most one LOAN_LIQUIDATION event is published for
\* a given loanId.
C2_AtMostOneLiquidation ==
  \A l \in LoanIds :
    Cardinality({ i \in 1..Len(published) : published[i] = Event("LOAN_LIQUIDATION", l) }) <= 1

\* C3: a collateral top-up addressed to a liquidated loan is never accepted,
\* whatever the borrower, amount or requestId.
C3_TopUpOnLiquidatedRejected ==
  [][\A body \in TopUpBodies :
       (/\ body.loanId \in LoanIds
        /\ loans[body.loanId].status = "liquidated"
        /\ PostCollateralTopUp(body))
       => response' # 202]_vars

\* C4: a liquidated loan is terminal: no later step changes its status,
\* principal or collateral.
C4_LiquidatedIsTerminal ==
  [][\A l \in LoanIds :
       loans[l].status = "liquidated"
       => /\ loans'[l].status = "liquidated"
          /\ loans'[l].amount = loans[l].amount
          /\ loans'[l].collateral = loans[l].collateral]_vars

\* C5: a request that repeats an accepted requestId changes no loan and is
\* answered 409 (400 when its body is malformed: validation comes first), and
\* an accepted top-up of 5 adds exactly 5 to the collateral: the same top-up
\* sent twice adds 5 once.
RepeatAnswer(body) == IF SchemaValid(body) THEN 409 ELSE 400
Repeats(bodies) == { body \in bodies : body.requestId \in processedRequests[Primary] }
C5_DuplicateChangesNothing ==
  [][/\ \A body \in Repeats(RepeatLoanBodies) :
          PostLoanApplication(body) => (response' = RepeatAnswer(body) /\ loans' = loans)
     /\ \A body \in Repeats(RepeatTopUpBodies) :
          PostCollateralTopUp(body) => (response' = RepeatAnswer(body) /\ loans' = loans)
     /\ \A body \in RepeatTopUpBodies \ Repeats(RepeatTopUpBodies) :
          (SchemaValid(body) /\ Known(body.loanId) /\ PostCollateralTopUp(body))
          => /\ response' = 202
             /\ loans'[body.loanId].collateral = FAdd(loans[body.loanId].collateral, parseFloat(Str5))
             /\ body.requestId \in processedRequests'[Primary]]_vars

\* A loan of 500 holds its collateral of 1000 plus one top-up of 5 and the
\* last request, a repetition, was answered 409.
C5_Witness ==
  /\ response = 409
  /\ \E l \in LoanIds :
       /\ Known(l)
       /\ loans[l].amount = parseFloat(Str500)
       /\ loans[l].collateral = FAdd(FScale(parseFloat(Str500), 2), parseFloat(Str5))

\* The well-formed requests of either endpoint that carry requestId.
RequestsWith(requestId) == ValidBodies({requestId}, {"borrower-1"}, {Str500, Str5})
\* The step is a request with this body arriving at process n.
Arrives(n, body) == ForwardLoanApplication(n, body) \/ ForwardCollateralTopUp(n, body)

\* C6: while a request is in flight in a process, every other request with the
\* same requestId that arrives there is answered 409 and has no effect (it
\* does not reach the handler, nothing is published or forwarded for it), and
\* the handler is entered at most once per requestId.
C6_ConcurrentDuplicatesRejected ==
  [][/\ \A n \in Nodes, rid \in AllRequestIds : handlerRuns'[n][rid] <= 1
     /\ \A h \in inFlight : \A body \in RequestsWith(h.requestId) :
          Arrives(h.node, body)
          => (response' = 409 /\ UNCHANGED <<processedRequests, forwardVars>>)]_vars

\* A handler is suspended at an await, it is the only one its process has
\* entered, and the last request, with the same requestId, was answered 409.
C6_Witness ==
  /\ response = 409
  /\ \E h \in inFlight :
       /\ processedRequests[h.node] = {h.requestId}
       /\ handlerRuns[h.node][h.requestId] = 1

\* C7: top-ups of one loan are serialized, no update is lost: the stored
\* collateral of a loan is its collateral at creation plus the sum of the
\* amounts of the top-ups that were saved for it.
C7_NoLostTopUp ==
  \A l \in LoanIds :
    repository[l] # NoLoan => repository[l].collateralAmount.v = credited[l]

\* C8: a requestId accepted by one instance (answered 202) is answered 409,
\* without effect, by every other instance it is submitted to.
C8_DuplicateAcrossInstances ==
  [][\A f \in forwarded : \A n \in Nodes \ {f.node} : \A body \in RequestsWith(f.requestId) :
       Arrives(n, body)
       => (response' = 409 /\ UNCHANGED <<processedRequests, forwardVars>>)]_vars

\* C9: a loan application for a loanId that is already known is not accepted
\* and leaves the stored loan unchanged.
C9_CreateKnownLoanFails ==
  [][\A body \in LoanApplicationBodies :
       (/\ body.loanId \in LoanIds
        /\ Known(body.loanId)
        /\ PostLoanApplication(body))
       => (response' # 202 /\ loans'[body.loanId] = loans[body.loanId])]_vars

\* C10: the principal of a loan is the one recorded at creation, after any
\* later step.
C10_PrincipalImmutable ==
  [][\A l \in LoanIds : Known(l) => loans'[l].amount = loans[l].amount]_vars

\* C11: until a loan is liquidated its collateral never decreases: every
\* top-up that is accepted (202) leaves the collateral of its loan at or above
\* the value it had before.
C11_CollateralNeverDecreases ==
  [][\A body \in TopUpBodies :
       (/\ body.loanId \in LoanIds
        /\ Known(body.loanId)
        /\ loans[body.loanId].status # "liquidated"
        /\ PostCollateralTopUp(body)
        /\ response' = 202)
       => loans'[body.loanId].collateral.v >= loans[body.loanId].collateral.v]_vars

Abs(x) == IF x < 0 THEN 0 - x ELSE x
RECURSIVE Gcd(_, _)
Gcd(a, b) == IF b = 0 THEN a ELSE Gcd(b, a % b)
\* The quotient n/d (d # 0) in lowest terms, with a positive denominator.
Lowest(n, d) ==
  LET g == Gcd(Abs(n), Abs(d))
      sign == IF d < 0 THEN 0 - 1 ELSE 1
  IN <<sign * (n \div g), sign * (d \div g)>>

\* ltv is the quotient principal / (collateral * price).
IsPrincipalOverCollateralValue(ltv, amount, collateral, price) ==
  /\ ~ltv.nan /\ ~amount.nan /\ ~collateral.nan
  /\ ltv.den # 0
  /\ collateral.v * price # 0
  /\ Lowest(ltv.num, ltv.den) = Lowest(amount.v, collateral.v * price)

\* C12: the LTV on which a loan is activated or liquidated is
\* principal / (collateral * price): on every step that makes a loan active or
\* liquidated, the LTV the decision read has that value.
C12_DecisionLtv ==
  [][\A l \in LoanIds :
       (/\ Known(l)
        /\ loans'[l].status # loans[l].status
        /\ loans'[l].status \in {"active", "liquidated"})
       => IsPrincipalOverCollateralValue(loans[l].ltv, loans[l].amount, loans[l].collateral, currentPrice)]_vars

\* C13: a pending loan whose LTV is 50% or less (50% included) is to be
\* activated: Loan.canActivate answers true for it at every price.
C13_PendingActivatedAtThreshold ==
  [][\A price \in EntityPrices :
       (/\ entity # NoLoan
        /\ entity.status = "PENDING"
        /\ entity.collateralAmount.v * price > 0
        /\ entity.amount.v * 100 <= activationThreshold * (entity.collateralAmount.v * price)
        /\ LoanCanActivate(price))
       => returned'.value = "true"]_vars

\* C14: an active loan whose LTV is 80% or more (80% included) is to be
\* liquidated: Loan.shouldLiquidate answers true for it at every price.
C14_ActiveLiquidatedAtThreshold ==
  [][\A price \in EntityPrices :
       (/\ entity # NoLoan
        /\ entity.status = "ACTIVE"
        /\ entity.collateralAmount.v * price > 0
        /\ entity.amount.v * 100 >= liquidationThreshold * (entity.collateralAmount.v * price)
        /\ LoanShouldLiquidate(price))
       => returned'.value = "true"]_vars

\* principal / (collateral * price), the LTV of a loan of the fake service, is
\* at most p/q (collateral and price positive).
LtvAtMost(loan, price, p, q) ==
  /\ ~loan.amount.nan /\ ~loan.collateral.nan
  /\ loan.collateral.v * price > 0
  /\ loan.amount.v * q <= p * (loan.collateral.v * price)

\* The collateral of the loan is above the collateral set at creation, twice
\* the principal: a top-up has been credited.
ToppedUp(loan) == ~loan.amount.nan /\ ~loan.collateral.nan /\ loan.collateral.v > 2 * loan.amount.v

\* C15: while the service runs, a pending loan that top-ups have brought to an
\* LTV, principal / (collateral * price), of 50% or less eventually becomes
\* active.
C15_SufficientCollateralActivates ==
  \A l \in LoanIds :
    (/\ running
     /\ Known(l)
     /\ loans[l].status = "pending"
     /\ ToppedUp(loans[l])
     /\ LtvAtMost(loans[l], currentPrice, 1, 2))
    ~> (loans[l].status = "active")

\* Position of an event type in the life cycle of a loan.
EventRank(eventType) ==
  CASE eventType = "LOAN_APPLICATION" -> 1
    [] eventType = "LOAN_ACTIVATION" -> 2
    [] eventType = "LOAN_LIQUIDATION" -> 3

\* C16: the events of one loan reach the topic in the order of its
\* transitions: of two published events of the same loan, the earlier one is
\* not of a later transition (application, then activation, then liquidation).
C16_EventsInTransitionOrder ==
  \A i, j \in 1..Len(published) :
    (i < j /\ published[i].loanId = published[j].loanId)
    => EventRank(published[i].eventType) <= EventRank(published[j].eventType)

\* Two events of the same lifecycle transition: the application of one loan,
\* with the same borrower and principal.
SameTransition(a, b) ==
  /\ a.eventType = "application" /\ b.eventType = "application"
  /\ a.loanId = b.loanId /\ a.borrowerId = b.borrowerId /\ a.amount = b.amount

\* C17: the eventId is a function of the transition: when the publish of a
\* loan's application event has failed, every other event sent for the same
\* application carries the same eventId.
C17_SameTransitionSameEventId ==
  \A a, b \in domainEvents :
    (a.outcome = "failed" /\ SameTransition(a, b)) => a.eventId = b.eventId

\* C18: success is reported only after the bus has acknowledged the message:
\* when a loan application is answered 202, the LOAN_APPLICATION event of its
\* loan has been acknowledged by SNS.
C18_SuccessOnlyAfterAck ==
  [][\A body \in LoanApplicationBodies :
       (PostLoanApplication(body) /\ response' = 202)
       => \E i \in 1..Len(published') : published'[i] = Event("LOAN_APPLICATION", body.loanId)]_vars

\* C19: an outbound call (SNS publish, HTTP forward) that fails is retried
\* before the failure is reported: a request is answered 500 for a failed
\* call only when the call has been made more than once.
C19_RetriedBeforeFailure ==
  [][\A h \in inFlight :
       (inFlight' = inFlight \ {h} /\ response' = 500) => h.attempts > 1]_vars

\* s is a positive decimal: digits, optionally a point and more digits, and
\* a value above zero.
IsPositiveDecimal(s) ==
  LET nInt == DigitRun(s, 1)
      hasDot == nInt + 1 <= Len(s) /\ s[nInt + 1] = "."
      nFrac == IF hasDot THEN DigitRun(s, nInt + 2) ELSE 0
  IN /\ nInt >= 1
     /\ IF hasDot THEN nFrac >= 1 /\ nInt + 1 + nFrac = Len(s) ELSE nInt = Len(s)
     /\ parseFloat(s).v > 0

\* C20: a loan application whose principal is not a positive decimal, or
\* whose loanId or borrowerId is empty, is answered 400 (Validation) and
\* creates no loan.
C20_InvalidApplicationRejected ==
  [][\A body \in UncheckedLoanBodies :
       (/\ \/ ~IsPositiveDecimal(body.amount)
           \/ body.loanId = ""
           \/ body.borrowerId = ""
        /\ PostLoanApplication(body))
       => (response' = 400 /\ loans' = loans)]_vars

\* The bodies of either endpoint in which one of the four fields is empty.
MalformedBodies == InvalidBodies(AllRequestIds, {"borrower-1"}, {Str500, Str5})

\* C21: a request that fails schema validation is answered 400 and goes no
\* further: the handler is not entered, nothing is published or forwarded for
\* it, and its requestId is not added to the processed requests.
C21_InvalidGoesNoFurther ==
  [][\A body \in MalformedBodies :
       Arrives(Primary, body)
       => /\ response' = 400
          /\ UNCHANGED <<processedRequests, forwardVars, snsInFlight, published>>]_vars

\* A malformed request was answered 400 while a handler is suspended and one
\* request has been forwarded: neither was touched.
C21_Witness ==
  /\ response = 400
  /\ inFlight # {}
  /\ forwarded # {}

\* A well-formed top-up whose requestId has not been recorded.
FreshTopUps == { body \in TopUpBodies : SchemaValid(body) /\ body.requestId \notin processedRequests[Primary] }

\* C22: a collateral top-up for a loanId that is not known is answered 404
\* and changes no loan.
C22_TopUpUnknownLoanNotFound ==
  [][\A body \in FreshTopUps :
       (~Known(body.loanId) /\ PostCollateralTopUp(body))
       => (response' = 404 /\ loans' = loans)]_vars

\* C23: a collateral top-up whose borrowerId is not the borrower of the loan
\* it addresses is answered 400 and leaves the collateral of the loan as it was.
C23_TopUpBorrowerMismatchRejected ==
  [][\A body \in FreshTopUps :
       (/\ Known(body.loanId)
        /\ loans[body.loanId].borrowerId # body.borrowerId
        /\ PostCollateralTopUp(body))
       => (response' = 400 /\ loans'[body.loanId].collateral = loans[body.loanId].collateral)]_vars

\* The transitions the lifecycle allows, in the statuses of the Loan entity
\* (new is PENDING).
LegalTransitions ==
  { <<"PENDING", "ACTIVE">>, <<"ACTIVE", "LIQUIDATING">>, <<"LIQUIDATING", "LIQUIDATED">> }

\* C24: a status transition requested from another status than its source
\* status fails and leaves the loan unchanged, and the only changes of status
\* that ever succeed are new -> active, active -> liquidating and
\* liquidating -> liquidated.
C24_OnlyLegalTransitions ==
  [][(entity # NoLoan /\ entity' # NoLoan)
     => /\ (returned'.value = "throws" => entity' = entity)
        /\ (entity'.status # entity.status
            => <<entity.status, entity'.status>> \in LegalTransitions)]_vars

\* C25: a message of the queue is deleted only after its handler has
\* completed successfully: a message for which DeleteMessage was sent has a
\* body the handler accepts and its event is in the LoanEventStore, so a
\* message whose handler throws is never deleted and stays in the queue.
C25_DeletedOnlyAfterHandled ==
  \A m \in MessageIds :
    queue[m].state \in {"deleting", "deleted"}
    => /\ Parses(queue[m].body)
       /\ \E i \in DOMAIN loanEventStore : loanEventStore[i] = queue[m].body.event
C25_Witness ==
  \E m, k \in MessageIds :
    /\ queue[m].state = "deleted"
    /\ ~Parses(queue[k].body)
    /\ queue[k].state = "invisible"

\* C26: the EventHistoryStore never holds more than maxInMemoryEvents events:
\* after n calls of addEvent it holds exactly the most recent
\* min(n, maxInMemoryEvents) events, in the order in which they were added.
C26_HistoryKeepsMostRecent ==
  \A n \in Nodes :
    LET held == Len(eventHistory[n])
    IN /\ held = (IF eventsAdded[n] < maxInMemoryEvents THEN eventsAdded[n] ELSE maxInMemoryEvents)
       /\ \A i \in 1..held : eventHistory[n][i].id = eventsAdded[n] - held + i
C26_Witness ==
  /\ eventsAdded[Primary] > maxInMemoryEvents
  /\ Len(eventHistory[Primary]) = maxInMemoryEvents
  /\ eventHistory[Primary][1].id = eventsAdded[Primary] - maxInMemoryEvents + 1

\* C27: the events the service keeps in memory never exceed
\* maxInMemoryEvents, in the event history and in the store of received events.
C27_EventsInMemoryBounded ==
  /\ \A n \in Nodes : Len(eventHistory[n]) <= maxInMemoryEvents
  /\ Len(loanEventStore) <= maxInMemoryEvents

\* The OUTBOUND event of the request a handler serves is the newest event of
\* the history.
NewestIsEventOf(history, h) ==
  /\ Len(history) > 0
  /\ history[Len(history)].direction = "OUTBOUND"
  /\ history[Len(history)].type = EventType(h.kind)
  /\ history[Len(history)].requestId = h.requestId

\* The history holds an OUTBOUND event of the type.
RecordedOutbound(history, type) ==
  \E i \in DOMAIN history : history[i].direction = "OUTBOUND" /\ history[i].type = type

\* C28: every outbound event is recorded in the event history, with
\* direction OUTBOUND, by the time its publish attempt is made, whether the
\* attempt is made by a route handler or by the liquidation service, and a
\* publish that fails leaves the history as it was.
C28_OutboundRecordedBeforePublish ==
  [][/\ \A h \in inFlight' \ inFlight :
          h.pc = "publishing" => NewestIsEventOf(eventHistory'[h.node], h)
     /\ \A h \in inFlight \ inFlight' :
          (h.pc = "publishing" /\ [h EXCEPT !.pc = "forwarding"] \notin inFlight')
          => (response' = 500 /\ eventHistory' = eventHistory)
     /\ \A e \in Events :
          snsInFlight'[e] > snsInFlight[e]
          => RecordedOutbound(eventHistory'[Primary], e.eventType)]_vars

\* C29: POST /simulation/start succeeds only when the simulator is stopped
\* and POST /simulation/stop only when it is running; otherwise the answer
\* is 409 and the simulator is left as it was.
C29_StartStopGuarded ==
  [][/\ SimulationStart
        => IF isRunning THEN response' = 409 /\ UNCHANGED simulatorVars
           ELSE response' = 200 /\ isRunning'
     /\ SimulationStop
        => IF ~isRunning THEN response' = 409 /\ UNCHANGED simulatorVars
           ELSE response' = 200 /\ ~isRunning']_vars
C29_Witness ==
  /\ response = 409
  /\ isRunning
  /\ Cardinality({ a \in ActorIds : actors[a].ticking }) = maxClients

\* C30: whenever an actor dies while the simulator is running, a new actor
\* takes its place: after the step the number of live actors is maxClients
\* again, in the first run of the simulator and in every later one.
C30_DeadActorReplaced ==
  [][(/\ isRunning /\ isRunning'
      /\ \E a \in ActorIds : actors[a].ticking /\ ~actors'[a].ticking)
     => Cardinality({ a \in ActorIds : actors'[a].ticking }) = maxClients]_vars

\* C31: after 10 actions an actor always dies: no actor performs more than
\* deathAfter action ticks, an actor that has performed deathAfter ticks has
\* no timer, and an actor without a timer performs no further tick and gets
\* no timer again.
C31_ActorDiesByTenthAction ==
  [][\A a \in ActorIds :
       /\ actors'[a].actionsPerformed <= deathAfter
       /\ (actors'[a].actionsPerformed = deathAfter => ~actors'[a].ticking)
       /\ ((actors[a].created /\ ~actors[a].ticking)
           => (~actors'[a].ticking /\ actors'[a].actionsPerformed = actors[a].actionsPerformed))]_vars
C31_Witness ==
  \E a \in ActorIds :
    /\ actors[a].created
    /\ actors[a].actionsPerformed = deathAfter
    /\ ~actors[a].ticking
    /\ isRunning

\* The handlers that end on this step with the answer 500.
Failing500 ==
  { h \in inFlight \ inFlight' :
      /\ response' = 500
      /\ \A g \in inFlight' : ~(g.node = h.node /\ g.requestId = h.requestId) }

\* C32: a requestId is recorded as processed only for accepted requests: when
\* the processing of a request ends in a 500 answer its requestId is not in
\* the Set of processed requestIds, so that the request can be sent again.
C32_FailedRequestNotRecorded ==
  [][\A h \in Failing500 : h.requestId \notin processedRequests'[h.node]]_vars

\* The top-up executions that end on this step with the answer 500 while no
\* other request is being processed.
FailingTopUps ==
  { e \in executions \ executions' :
      /\ e.kind = "top-up"
      /\ e.pc = "delivering"
      /\ response' = 500
      /\ executions = {e} }

\* C33: when a collateral top-up ends in an error because the publish of its
\* event or the hand-over to the liquidation service fails, the stored
\* collateral of the loan is what it was before the request: it does not
\* contain the amount of the failed top-up.
C33_FailedTopUpLeavesCollateral ==
  [][\A e \in FailingTopUps :
       repository'[e.loanId].collateralAmount.v = e.loan.collateralAmount.v - e.amount.v]_vars

\* C34: every request answered 202 has been published to the bus or handed
\* to a liquidation service: on the step that answers 202 an event goes to
\* SNS, the fake liquidation service takes the loan or the collateral, or the
\* remote liquidation service has received the request.
C34_AcceptedIsDelivered ==
  [][(/\ response' = 202
      /\ \/ handlerRuns' # handlerRuns /\ inFlight' = inFlight
         \/ inFlight' # inFlight /\ inFlight' \subseteq inFlight)
     => \/ \E e \in Events : snsInFlight'[e] > snsInFlight[e]
        \/ loans' # loans
        \/ forwarded' # forwarded]_vars

(***************************************************************************)
(* utils/retry.ts: withRetry(fn, options).  One call is followed from its  *)
(* first invocation of fn to the return or the throw.  Delays, and the     *)
(* backoff factor, are exact fractions <<n, d>> with d > 0, so that a      *)
(* factor below 1 and a fractional delay are what the code computes.       *)
(***************************************************************************)
MaxRetryAttempts == 4

Fraction(n, d) == <<n, d>>
FractionLeq(a, b) == a[1] * b[2] <= b[1] * a[2]
FractionEq(a, b) == a[1] * b[2] = b[1] * a[2]
FractionMul(a, b) == Fraction(a[1] * b[1], a[2] * b[2])
MathMin(a, b) == IF FractionLeq(a, b) THEN a ELSE b

RECURSIVE MathPow(_, _)
MathPow(x, k) == IF k = 0 THEN Fraction(1, 1) ELSE FractionMul(x, MathPow(x, k - 1))

\* What one invocation of fn does: it resolves, or it rejects with an error
\* that has a code, or a response.status, or neither.
Resolves == [code |-> "none", status |-> 0, ok |-> TRUE]
ErrorInputs ==
  { [code |-> "ETIMEDOUT", status |-> 0, ok |-> FALSE],
    [code |-> "none", status |-> 503, ok |-> FALSE],
    [code |-> "none", status |-> 404, ok |-> FALSE] }
FnInputs == [1..MaxRetryAttempts -> {Resolves} \cup ErrorInputs]

\* DEFAULT_RETRY_OPTIONS.retryableErrors
defaultRetryableErrors(error) ==
  IF error.code \in {"ECONNREFUSED", "ECONNRESET", "ETIMEDOUT"} THEN TRUE
  ELSE IF error.status # 0 THEN error.status >= 500 /\ error.status < 600
  ELSE FALSE

DEFAULT_RETRY_OPTIONS ==
  [maxAttempts |-> 3, initialDelayMs |-> Fraction(100, 1), maxDelayMs |-> Fraction(5000, 1),
   backoffFactor |-> Fraction(2, 1), retryableErrors |-> "default"]

\* { ...DEFAULT_RETRY_OPTIONS, ...options }
retryOptions(options) ==
  [k \in DOMAIN DEFAULT_RETRY_OPTIONS |->
     IF k \in DOMAIN options THEN options[k] ELSE DEFAULT_RETRY_OPTIONS[k]]

\* The options a caller passes: none, maxAttempts and initialDelayMs only (as
\* publishLoanEvent does), or all five.
\* retryableErrors is a predicate: () => false, the default one, or an
\* explicit undefined, which the spread copies over the default.
OptionInputs ==
  { <<>>, [maxAttempts |-> MaxRetryAttempts, initialDelayMs |-> Fraction(200, 1)] }
  \cup [maxAttempts : 0..MaxRetryAttempts,
        initialDelayMs : {Fraction(100, 1)},
        maxDelayMs : {Fraction(150, 1), Fraction(5000, 1)},
        backoffFactor : {Fraction(1, 2), Fraction(1, 1), Fraction(2, 1)},
        retryableErrors : {"never", "default", "undefined"}]

\* retryOptions.retryableErrors?.(error) ?? true
isRetryable_Always(options, error) == TRUE

isRetryable(options, error) ==
  CASE options.retryableErrors = "undefined" -> TRUE
    [] options.retryableErrors = "never" -> FALSE
    [] OTHER -> defaultRetryableErrors(error)

\* attempt >= retryOptions.maxAttempts
exhausted_Late(options, attempt) == attempt > options.maxAttempts

exhausted(options, attempt) == attempt >= options.maxAttempts

\* Math.min(initialDelayMs * Math.pow(backoffFactor, attempt - 1), maxDelayMs)
delayMs_Uncapped(options, attempt) ==
  FractionMul(options.initialDelayMs, MathPow(options.backoffFactor, attempt - 1))

delayMs(options, attempt) ==
  MathMin(FractionMul(options.initialDelayMs, MathPow(options.backoffFactor, attempt - 1)),
          options.maxDelayMs)

\* The call as withRetry is entered: attempt = 1, lastError undefined.
withRetry(fn, options) ==
  [pc |-> "loop", fn |-> fn, retryOptions |-> retryOptions(options), attempt |-> 1,
   lastError |-> "undefined", invocations |-> 0, delays |-> <<>>,
   result |-> "none", thrown |-> "none"]

InitRetry ==
  /\ Constructed
  /\ retry \in { withRetry(fn, options) : fn \in FnInputs, options \in OptionInputs }

\* while (attempt <= maxAttempts) { try { return await fn() } catch ... }:
\* fn is invoked and settles.  An error carries the invocation that threw it.
InvokeFn ==
  /\ retry.pc = "loop"
  /\ retry.attempt <= retry.retryOptions.maxAttempts
  /\ LET i == retry.invocations + 1
         outcome == retry.fn[i]
         error == [error |-> outcome, at |-> i]
         called == [retry EXCEPT !.invocations = i]
     IN  IF outcome.ok
         THEN retry' = [called EXCEPT !.pc = "returned", !.result = i]
         ELSE IF ~isRetryable(retry.retryOptions, outcome) \/ exhausted(retry.retryOptions, retry.attempt)
         THEN retry' = [called EXCEPT !.pc = "thrown", !.lastError = error, !.thrown = error]
         ELSE retry' = [called EXCEPT !.pc = "waiting", !.lastError = error,
                                     !.delays = Append(@, delayMs(retry.retryOptions, retry.attempt))]
  /\ UNCHANGED <<processedRequests, loans, currentPrice, running, snsInFlight, published, response,
                 forwardVars, domainVars, entityVars, historyVars, consumerVars, simulatorVars, pollingVars>>

\* setTimeout(resolve, delayMs) fires: attempt++
DelayElapsed ==
  /\ retry.pc = "waiting"
  /\ retry' = [retry EXCEPT !.pc = "loop", !.attempt = @ + 1]
  /\ UNCHANGED <<processedRequests, loans, currentPrice, running, snsInFlight, published, response,
                 forwardVars, domainVars, entityVars, historyVars, consumerVars, simulatorVars, pollingVars>>

\* the loop is left without a return or a throw: throw lastError
LoopExit ==
  /\ retry.pc = "loop"
  /\ retry.attempt > retry.retryOptions.maxAttempts
  /\ retry' = [retry EXCEPT !.pc = "thrown", !.thrown = retry.lastError]
  /\ UNCHANGED <<processedRequests, loans, currentPrice, running, snsInFlight, published, response,
                 forwardVars, domainVars, entityVars, historyVars, consumerVars, simulatorVars, pollingVars>>

NextRetry ==
  \/ InvokeFn
  \/ DelayElapsed
  \/ LoopExit

SpecRetry == InitRetry /\ [][NextRetry]_vars

\* The same call when every invocation of fn settles and every timer fires.
SpecRetrySettling == SpecRetry /\ WF_vars(NextRetry)

Settled == retry.pc \in {"returned", "thrown"}
Failed(j) == ~retry.fn[j].ok

BoundedAttempts ==
  (retry.pc # "idle" /\ retry.retryOptions.maxAttempts >= 1) =>
    /\ retry.invocations <= retry.retryOptions.maxAttempts
    /\ retry.pc = "returned" =>
         /\ retry.result = retry.invocations
         /\ ~Failed(retry.result)
         /\ \A j \in 1..(retry.result - 1) : Failed(j)
    /\ (retry.invocations = retry.retryOptions.maxAttempts /\ Failed(retry.invocations)) =>
         retry.pc = "thrown"
    /\ retry.pc = "thrown" =>
         retry.thrown = [error |-> retry.fn[retry.invocations], at |-> retry.invocations]

\* C35: with maxAttempts >= 1 a call of withRetry invokes fn at most
\* maxAttempts times and then is over: it returns what the first invocation
\* that resolved returned, and invokes nothing after it, or, when the
\* maxAttempts-th invocation has failed, throws at once, and what it throws is
\* the error of its last invocation.
C35_RetryTerminates ==
  /\ []BoundedAttempts
  /\ (retry.pc # "idle" /\ retry.retryOptions.maxAttempts >= 1) ~> Settled

C35_Witness ==
  /\ retry.pc = "thrown"
  /\ retry.retryOptions.maxAttempts >= 3
  /\ retry.invocations = retry.retryOptions.maxAttempts
  /\ retry.thrown.at = retry.invocations

\* The verdict of the predicate the options hold, read off the options.
ClassifiedNotRetryable(error) ==
  \/ retry.retryOptions.retryableErrors = "never"
  \/ retry.retryOptions.retryableErrors = "default" /\ ~defaultRetryableErrors(error)

\* C36: once an invocation has failed with an error that retryableErrors
\* classifies as not retryable, the call has thrown that error: that
\* invocation is the last one and no delay follows it.
C36_NotRetryableRethrownAtOnce ==
  retry.pc # "idle" =>
    \A j \in 1..retry.invocations :
      (Failed(j) /\ ClassifiedNotRetryable(retry.fn[j])) =>
        /\ retry.pc = "thrown"
        /\ retry.thrown = [error |-> retry.fn[j], at |-> j]
        /\ retry.invocations = j
        /\ Len(retry.delays) = j - 1

C36_Witness ==
  /\ retry.pc = "thrown"
  /\ retry.retryOptions.retryableErrors = "default"
  /\ retry.retryOptions.maxAttempts >= 3
  /\ retry.invocations = 2
  /\ retry.fn[2].status = 404

Backoff(k) ==
  FractionMul(retry.retryOptions.initialDelayMs, MathPow(retry.retryOptions.backoffFactor, k - 1))

\* C37: the k-th delay of a call is the one waited after the k-th failed
\* attempt, and it is initialDelayMs * backoffFactor^(k-1), or maxDelayMs when
\* that is smaller; with backoffFactor >= 1 no delay is shorter than the one
\* before it and none is longer than maxDelayMs.
C37_DelayIsCappedBackoff ==
  retry.pc # "idle" =>
    /\ Len(retry.delays) = IF retry.pc = "waiting" THEN retry.attempt ELSE retry.attempt - 1
    /\ \A k \in 1..Len(retry.delays) :
         /\ Failed(k)
         /\ IF FractionLeq(Backoff(k), retry.retryOptions.maxDelayMs)
            THEN FractionEq(retry.delays[k], Backoff(k))
            ELSE FractionEq(retry.delays[k], retry.retryOptions.maxDelayMs)
    /\ FractionLeq(Fraction(1, 1), retry.retryOptions.backoffFactor) =>
         /\ \A k \in 1..Len(retry.delays) : FractionLeq(retry.delays[k], retry.retryOptions.maxDelayMs)
         /\ \A k \in 2..Len(retry.delays) : FractionLeq(retry.delays[k - 1], retry.delays[k])

C37_Witness ==
  /\ Len(retry.delays) >= 3
  /\ FractionLeq(Fraction(2, 1), retry.retryOptions.backoffFactor)
  /\ ~FractionLeq(retry.retryOptions.maxDelayMs, retry.delays[1])
  /\ FractionEq(retry.delays[3], retry.retryOptions.maxDelayMs)

(***************************************************************************)
(* index.ts: the subscription at boot and startSqsPolling.  A poll is one  *)
(* call of startSqsPolling: it awaits receiveAndProcessMessages, which     *)
(* awaits the ReceiveMessage call and then, in Promise.all, the handling   *)
(* and the DeleteMessage call of every message received.  polling counts   *)
(* the polls at each await and lists the delays of the timers that are     *)
(* set and have not fired.                                                 *)
(***************************************************************************)
pollingIntervalMs == 30000

\* startSqsPolling is entered: receiveAndProcessMessages sends ReceiveMessage
startSqsPolling(p) == [p EXCEPT !.receiving = @ + 1]

\* setTimeout(startSqsPolling, delay) in a poll that awaited at `phase`
setTimeout(p, phase, delay) ==
  [p EXCEPT ![phase] = @ - 1, !.timers = Append(@, delay)]

\* await subscribeSqsToSnsTopic() resolves: startSqsPolling()
SubscribeResolved ==
  /\ polling.subscribe = "pending"
  /\ polling' = startSqsPolling([polling EXCEPT !.subscribe = "resolved"])
  /\ UNCHANGED <<processedRequests, loans, currentPrice, running, snsInFlight, published, response,
                 forwardVars, domainVars, entityVars, historyVars, consumerVars, simulatorVars, retryVars>>

\* await subscribeSqsToSnsTopic() rejects: 'Failed to set up AWS services'
SubscribeRejected ==
  /\ polling.subscribe = "pending"
  /\ polling' = [polling EXCEPT !.subscribe = "rejected"]
  /\ UNCHANGED <<processedRequests, loans, currentPrice, running, snsInFlight, published, response,
                 forwardVars, domainVars, entityVars, historyVars, consumerVars, simulatorVars, retryVars>>

\* ReceiveMessage resolves with a batch, which may be empty: the messages are
\* handled and their deletes are sent; the poll awaits Promise.all.
PollReceives(batch) ==
  LET st == processMessages(batch, [store |-> loanEventStore, history |-> eventHistory[Primary],
                                    added |-> eventsAdded[Primary], queue |-> queue])
  IN /\ polling.receiving > 0
     /\ Len(loanEventStore) + Len(batch) <= MaxStored
     /\ loanEventStore' = st.store
     /\ eventHistory' = [eventHistory EXCEPT ![Primary] = st.history]
     /\ eventsAdded' = [eventsAdded EXCEPT ![Primary] = st.added]
     /\ queue' = st.queue
     /\ polling' = [polling EXCEPT !.receiving = @ - 1, !.processing = @ + 1]
     /\ UNCHANGED <<processedRequests, loans, currentPrice, running, snsInFlight, published, response,
                    forwardVars, domainVars, entityVars, simulatorVars, retryVars>>

\* ReceiveMessage rejects: receiveAndProcessMessages rethrows, the catch of
\* startSqsPolling sets a timer of twice the interval.
PollReceiveRejected_Unscheduled ==
  /\ polling.receiving > 0
  /\ polling' = [polling EXCEPT !.receiving = @ - 1]
  /\ UNCHANGED <<processedRequests, loans, currentPrice, running, snsInFlight, published, response,
                 forwardVars, domainVars, entityVars, historyVars, consumerVars, simulatorVars, retryVars>>

PollReceiveRejected ==
  /\ polling.receiving > 0
  /\ polling' = setTimeout(polling, "receiving", pollingIntervalMs * 2)
  /\ UNCHANGED <<processedRequests, loans, currentPrice, running, snsInFlight, published, response,
                 forwardVars, domainVars, entityVars, historyVars, consumerVars, simulatorVars, retryVars>>

\* Promise.all resolves, once every delete of the batch is answered:
\* receiveAndProcessMessages returns and the timer of one interval is set.
PollProcessed ==
  /\ polling.processing > 0
  /\ \A m \in MessageIds : queue[m].state # "deleting"
  /\ polling' = setTimeout(polling, "processing", pollingIntervalMs)
  /\ UNCHANGED <<processedRequests, loans, currentPrice, running, snsInFlight, published, response,
                 forwardVars, domainVars, entityVars, historyVars, consumerVars, simulatorVars, retryVars>>

\* A timer fires: startSqsPolling() with the default interval.
TimerFires ==
  /\ \E i \in DOMAIN polling.timers :
       polling' = startSqsPolling([polling EXCEPT !.timers =
                    SubSeq(@, 1, i - 1) \o SubSeq(@, i + 1, Len(@))])
  /\ UNCHANGED <<processedRequests, loans, currentPrice, running, snsInFlight, published, response,
                 forwardVars, domainVars, entityVars, historyVars, consumerVars, simulatorVars, retryVars>>

NextPolling ==
  \/ SubscribeResolved
  \/ SubscribeRejected
  \/ \E batch \in Batches \cup {<<>>} : PollReceives(batch)
  \/ PollReceiveRejected
  \/ PollProcessed
  \/ TimerFires
  \/ \E m \in MessageIds, body \in MessageBodies : SendMessage(m, body)
  \/ \E m \in MessageIds : DeleteResolved(m)
  \/ \E m \in MessageIds : DeleteRejected(m)
  \/ \E m \in MessageIds : VisibilityTimeout(m)

SpecPolling == Init /\ [][NextPolling]_vars

\* The process stays up (the HTTP server keeps the event loop alive, so the
\* unref'ed timers fire) and every call to AWS is answered.
SpecPollingAnswered ==
  /\ SpecPolling
  /\ WF_vars(SubscribeResolved \/ SubscribeRejected)
  /\ WF_vars((\E batch \in Batches \cup {<<>>} : PollReceives(batch)) \/ PollReceiveRejected)
  /\ \A m \in MessageIds : WF_vars(DeleteResolved(m) \/ DeleteRejected(m))
  /\ WF_vars(PollProcessed)
  /\ WF_vars(TimerFires)

PollsInProgress == polling.receiving + polling.processing

\* C38: once polling has started there is always exactly one poll, in
\* progress or scheduled: a poll that ends, by returning or by throwing, sets
\* exactly one timer (of one interval, or of two after a failure), a poll
\* starts only when no poll is in progress, and a poll is started again and
\* again.
C38_PollingNeverStopsNorOverlaps ==
  /\ [](polling.subscribe = "resolved" => PollsInProgress + Len(polling.timers) = 1)
  /\ [][/\ PollsInProgress' < PollsInProgress =>
             /\ Len(polling'.timers) = Len(polling.timers) + 1
             /\ polling'.timers[Len(polling'.timers)] =
                  IF polling.processing > 0 THEN pollingIntervalMs ELSE pollingIntervalMs * 2
        /\ polling'.receiving > polling.receiving => PollsInProgress = 0]_vars
  /\ (polling.subscribe = "resolved") ~> (polling.receiving > 0)

C38_Witness ==
  /\ polling.timers = <<pollingIntervalMs * 2>>
  /\ PollsInProgress = 0
  /\ loanEventStore # <<>>

====
